---- MODULE Spec2Model ----
(***************************************************************************)
(* ROOTAI field boundary -> grid decomposition, as implemented twice:      *)
(*   static/js/main.js   (desktop page, 1 m cells, corner membership test) *)
(*   static/js/mobile.js (mobile page, 5 m cells, centre membership test)  *)
(*                                                                         *)
(* Geometry is held on an integer lattice.  One lattice unit of latitude   *)
(* is 1 / (latDegreePerMeter * 111320) degree, so that the program's       *)
(* 1/111320 degree-per-metre becomes latDegreePerMeter units per metre.    *)
(* A GeoJSON position is <<lng, lat>>, a Leaflet position is <<lat, lng>>, *)
(* as in the source.  Arithmetic is exact: the comparisons the source does *)
(* on doubles are done here on the cross-multiplied integers.              *)
(***************************************************************************)
EXTENDS Integers, Sequences, FiniteSets, TLC

VARIABLES
    (* -- main.js page state ------------------------------------------- *)
    fieldBoundary,   \* main.js:14  GeoJSON of the active boundary, or NullGeoJSON
    gridLayer,       \* main.js:16  <<group>>, the layer group returned by generateFieldGrid, or NoLayer
    gridVisible,     \* main.js:17
    gridCells,       \* main.js:18  sequence of [number, layer]
    cellStyle,       \* Leaflet path options of gridCells[k].layer
    mapGrid,         \* the grid layer groups currently added to the map
    drawnItems,      \* main.js:8   rings of the polygons in the drawn-items group
    currentFieldId,  \* main.js:9
    storedFieldId,   \* localStorage['currentFieldId']
    pending,         \* requests in flight: load / save
    handlersReady,   \* the Draw CREATED / EDITED handlers are registered (main.js:111)
    lastAlert,       \* the last alert() shown to the user
    history,         \* ghost: what each grid computation was run on and what it gave
    (* -- a single call of generateFieldGrid on a chosen input ---------- *)
    page,            \* which script runs the call: "desktop" or "mobile"
    ring,            \* the boundary ring given to it
    grid,            \* <<>> before the call, then <<the geometry and the output of the call>>
    (* -- calls of the telemetry hooks on a shown grid ------------------ *)
    applied,         \* ghost: the hook that ran last, with the mapping and the readings it had
    (* -- mobile.js page state ------------------------------------------ *)
    mobile_currentUser,    \* mobile.js:164  the uid of currentUser, or NoUser
    mobile_authToken,      \* mobile.js:165  the account the token is for, or NoUser
    mobile_drawnLayer,     \* mobile.js:157  <<layer>> or NoLayer
    mobile_mapPolygons,    \* the polygon layers on the main map
    mobile_currentFieldId, \* mobile.js:158
    mobile_griddedMap,     \* mobile.js:155  <<what the gridded map holds>> or NoLayer
    mobile_shownSection,   \* which of the two map sections is displayed
    mobile_saveEnabled,    \* the save button is enabled
    mobile_fieldSelect,    \* the field ids offered by the field select
    mobile_timers,         \* pending setTimeout callbacks, in the order they were scheduled
    mobile_inFlight,       \* requests sent and not yet answered
    mobile_server,         \* the fields the backend stores
    mobile_requested,      \* ghost: <<argument of the last displayGriddedField>> while the view is shown
    mobile_logins,         \* the sign-ins so far
    mobile_last401,        \* ghost: the caller whose request the last step saw answered 401, or "none"
    mobile_lastAlert,      \* the alert saveDrawnField raised in the last step, or NoAlert
    mobile_isAuthenticated,\* mobile.js:163
    (* -- mobile.js sign-in, step by step -------------------------------- *)
    mobile_currentScreen,  \* mobile.js:152
    auth_currentUser,      \* the account the Firebase SDK holds as signed in, or NoUser
    auth_notifications,    \* auth states not yet delivered to the listener of mobile.js:1094
    mobile_suspended,      \* the async functions suspended at an await
    mobile_handlers,       \* per control, the handlers setupEventListeners has attached
    mobile_started,        \* ghost: what the click of the last step started, or NoClick
    mobile_clicks,         \* the clicks on the sign-in, sign-up and logout buttons so far
    (* -- watches and interval timers of either page ---------------------- *)
    geo_watches,           \* the ids of the geolocation watches that are active
    geo_issued,            \* how many watch ids the browser has issued
    mobile_watchId,        \* mobile.js:172, or NoHandle
    mobile_probeMarker,    \* mobile.js:173  <<position>> or NoLayer
    mobile_trackingPolyline, \* mobile.js:171  the positions of the path
    background_last,       \* ghost: the function or callback that ran in the last step
    timer_intervals,       \* the ids of the interval timers that are active
    timer_issued,          \* how many timer ids the browser has issued
    autoRefreshInterval,   \* main.js:15, or NoHandle
    mobile_autoRefreshHandle, \* mobile.js:2074, or NoHandle
    (* -- the boundary saveDrawnField builds ------------------------------ *)
    mobile_latlngs,        \* drawnLayer.getLatLngs()[0], as Leaflet positions <<lat, lng>>
    mobile_boundary        \* <<>> before the call, then <<the coordinates of the payload>>

mainVars == <<fieldBoundary, gridLayer, gridVisible, gridCells, cellStyle, mapGrid,
              drawnItems, currentFieldId, storedFieldId, pending, handlersReady,
              lastAlert, history>>
callVars == <<page, ring, grid, applied>>
mobileVars == <<mobile_currentUser, mobile_authToken, mobile_drawnLayer, mobile_mapPolygons,
                mobile_currentFieldId, mobile_griddedMap, mobile_shownSection,
                mobile_saveEnabled, mobile_fieldSelect, mobile_timers, mobile_inFlight,
                mobile_server, mobile_requested, mobile_logins, mobile_last401,
                mobile_lastAlert, mobile_isAuthenticated>>
authVars == <<mobile_currentScreen, auth_currentUser, auth_notifications, mobile_suspended,
              mobile_handlers, mobile_started, mobile_clicks>>
backgroundVars == <<geo_watches, geo_issued, mobile_watchId, mobile_probeMarker,
                    mobile_trackingPolyline, background_last, timer_intervals, timer_issued,
                    autoRefreshInterval, mobile_autoRefreshHandle>>
closeVars == <<mobile_latlngs, mobile_boundary>>
sideVars == <<authVars, backgroundVars, closeVars>>
vars == <<mainVars, callVars, mobileVars, sideVars>>

\* null, for each kind of value the scripts hold
NullGeoJSON == [type |-> "null"]      \* a GeoJSON variable that is null
NoLayer == <<>>                       \* a layer variable that is null; <<g>> when it holds g
NoField == 0                          \* a field id that is null
NoAlert == "none"

(***************************************************************************)
(* Bounds of the model and program constants                               *)
(***************************************************************************)
MaxCoord == 3            \* boundary vertices lie on the lattice 0..MaxCoord (times the page's spacing)
CosBandLat == 16         \* centre latitudes below it are in the cos = 1 band, the others in the cos = 1/2 band

latDegreePerMeter == 2   \* main.js:617 / mobile.js:2390, in lattice units per metre
main_gridSizeMeters == 1     \* main.js:614
mobile_gridSizeMeters == 5   \* mobile.js:2387

(***************************************************************************)
(* Helpers for the JavaScript built-ins the source uses                    *)
(***************************************************************************)
SetMin(S) == CHOOSE m \in S : \A x \in S : m <= x
SetMax(S) == CHOOSE m \in S : \A x \in S : x <= m

\* Math.ceil(a / b) for a >= 0, b > 0
MathCeilDiv(a, b) == (a + b - 1) \div b

\* 1 / Math.cos(radians(lat)), tabulated in two latitude bands: cos = 1 and cos = 1/2.
\* The argument is twice the latitude (the bounding-box centre is (min + max) / 2).
InvCos(lat2) == IF lat2 < 2 * CosBandLat THEN 1 ELSE 2

RECURSIVE SeqSum(_, _)
SeqSum(s, k) == IF s = <<>> THEN 0 ELSE Head(s)[k] + SeqSum(Tail(s), k)

(***************************************************************************)
(* getBoundsFromCoordinates: main.js:747-767, mobile.js:2443-2462          *)
(* coords are GeoJSON <<lng, lat>>.  center is kept doubled (center2).     *)
(***************************************************************************)
getBoundsFromCoordinates(coords) ==
    LET lats == {coords[k][2] : k \in DOMAIN coords}
        lngs == {coords[k][1] : k \in DOMAIN coords}
    IN  [min |-> [lat |-> SetMin(lats), lng |-> SetMin(lngs)],
         max |-> [lat |-> SetMax(lats), lng |-> SetMax(lngs)],
         center2 |-> [lat |-> SetMin(lats) + SetMax(lats),
                      lng |-> SetMin(lngs) + SetMax(lngs)]]

\* only the edges that rise from j to i counted, as a test that depends on the
\* direction in which the ring is listed
main_edgeCrosses_upward(point, pi, pj) ==
    LET x == point[1]  y == point[2]
        xi == pi[1]    yi == pi[2]
        xj == pj[1]    yj == pj[2]
    IN  /\ yj <= y
        /\ yi > y
        /\ (x - xi) * (yj - yi) > (xj - xi) * (y - yi)

(***************************************************************************)
(* isPointInPolygon, main.js:793-807: point and polygon are <<x, y>> =     *)
(* <<lng, lat>>.  Edge (j -> i) toggles when it straddles y and the point  *)
(* is left of the edge at height y:                                        *)
(*     x < (xj - xi) * (y - yi) / (yj - yi) + xi                           *)
(* which, multiplied by (yj - yi), is the integer comparison below.        *)
(***************************************************************************)
main_edgeCrosses(point, pi, pj) ==
    LET x == point[1]  y == point[2]
        xi == pi[1]    yi == pi[2]
        xj == pj[1]    yj == pj[2]
    IN  /\ (yi > y) # (yj > y)
        /\ IF yj - yi > 0
              THEN (x - xi) * (yj - yi) < (xj - xi) * (y - yi)
              ELSE (x - xi) * (yj - yi) > (xj - xi) * (y - yi)

RECURSIVE main_pipLoop(_, _, _, _, _)
main_pipLoop(point, polygon, i, j, inside) ==
    IF i > Len(polygon) THEN inside
    ELSE main_pipLoop(point, polygon, i + 1, i,
                      IF main_edgeCrosses(point, polygon[i], polygon[j])
                         THEN ~inside ELSE inside)

\* the result of the loop negated
main_isPointInPolygon_negated(point, polygon) ==
    IF Len(polygon) = 0 THEN FALSE
    ELSE ~main_pipLoop(point, polygon, 1, Len(polygon), FALSE)

main_isPointInPolygon(point, polygon) ==
    IF Len(polygon) = 0 THEN FALSE
    ELSE main_pipLoop(point, polygon, 1, Len(polygon), FALSE)

(***************************************************************************)
(* isPointInPolygon, mobile.js:2467-2486: point and polygon are            *)
(* <<lat, lng>>; x = lng is element 2, y = lat is element 1.               *)
(***************************************************************************)
mobile_edgeCrosses(point, pi, pj) ==
    LET x == point[2]  y == point[1]
        xi == pi[2]    yi == pi[1]
        xj == pj[2]    yj == pj[1]
    IN  /\ (yi > y) # (yj > y)
        /\ IF yj - yi > 0
              THEN (x - xi) * (yj - yi) < (xj - xi) * (y - yi)
              ELSE (x - xi) * (yj - yi) > (xj - xi) * (y - yi)

RECURSIVE mobile_pipLoop(_, _, _, _, _)
mobile_pipLoop(point, polygon, i, j, inside) ==
    IF i > Len(polygon) THEN inside
    ELSE mobile_pipLoop(point, polygon, i + 1, i,
                        IF mobile_edgeCrosses(point, polygon[i], polygon[j])
                           THEN ~inside ELSE inside)

mobile_isPointInPolygon(point, polygon) ==
    IF Len(polygon) = 0 THEN FALSE
    ELSE mobile_pipLoop(point, polygon, 1, Len(polygon), FALSE)

(***************************************************************************)
(* getPolygonCenter, main.js:812-823: the mean of element 0 and of         *)
(* element 1 over all positions (the closing position included).  The mean *)
(* is a fraction: num / den.                                               *)
(***************************************************************************)
getPolygonCenter(geojson) ==
    LET coords == geojson.coordinates[1]
    IN  [num |-> <<SeqSum(coords, 1), SeqSum(coords, 2)>>, den |-> Len(coords)]

ScalePositions(coords, n) == [k \in DOMAIN coords |-> <<n * coords[k][1], n * coords[k][2]>>]

\* the corner test alone, without the test of the field's centre
isPolygonWithinField_cornersOnly(cellGeoJSON, fieldGeoJSON) ==
    LET cellCoords == cellGeoJSON.coordinates[1]
        fieldCoords == fieldGeoJSON.coordinates[1]
    IN  \E k \in DOMAIN cellCoords : main_isPointInPolygon(cellCoords[k], fieldCoords)

(***************************************************************************)
(* isPolygonWithinField, main.js:772-788: true when any of the five        *)
(* positions of the cell ring is inside the field, else when the field's   *)
(* centre is inside the cell.  The centre num/den is tested against the    *)
(* cell scaled by den, which is the same comparison.                       *)
(***************************************************************************)
isPolygonWithinField(cellGeoJSON, fieldGeoJSON) ==
    LET cellCoords == cellGeoJSON.coordinates[1]
        fieldCoords == fieldGeoJSON.coordinates[1]
        fieldCenter == getPolygonCenter(fieldGeoJSON)
    IN  \/ \E k \in DOMAIN cellCoords : main_isPointInPolygon(cellCoords[k], fieldCoords)
        \/ main_isPointInPolygon(fieldCenter.num, ScalePositions(cellCoords, fieldCenter.den))

(***************************************************************************)
(* GeoJSON values.  L.Polygon.toGeoJSON() gives a Feature whose geometry   *)
(* is the Polygon (mobile.js:561 reads .geometry); a Polygon has the       *)
(* member coordinates, a Feature has not.                                  *)
(***************************************************************************)
PolygonGeoJSON(r) == [type |-> "Polygon", coordinates |-> <<r>>]
FeatureGeoJSON(r) == [type |-> "Feature", geometry |-> PolygonGeoJSON(r)]

\* !geojson || !geojson.coordinates || !geojson.coordinates[0]   (main.js:608, mobile.js:2381)
NoCoordinates(geojson) ==
    \/ geojson = NullGeoJSON
    \/ "coordinates" \notin DOMAIN geojson
    \/ Len(geojson.coordinates) = 0

\* 1 / (111320 * Math.cos(radians(bounds.center.lat)))   (main.js:618, mobile.js:2391)
lngDegreePerMeter(bounds) == latDegreePerMeter * InvCos(bounds.center2.lat)

\* A cell rectangle: the corners handed to L.polygon, and the style options of the layer.
CellLayer(bounds, gridSizeLat, gridSizeLng, i, j) ==
    [lat1 |-> bounds.min.lat + i * gridSizeLat,
     lng1 |-> bounds.min.lng + j * gridSizeLng,
     lat2 |-> bounds.min.lat + (i + 1) * gridSizeLat,
     lng2 |-> bounds.min.lng + (j + 1) * gridSizeLng]

(***************************************************************************)
(* generateFieldGrid of main.js:607-689                                    *)
(***************************************************************************)
\* main.js:610-629: bounds, cell size in degrees, row and column counts
main_gridGeometry(coords) ==
    LET bounds == getBoundsFromCoordinates(coords)
        gridSizeLat == main_gridSizeMeters * latDegreePerMeter
        gridSizeLng == main_gridSizeMeters * lngDegreePerMeter(bounds)
    IN  [bounds |-> bounds,
         gridSizeLat |-> gridSizeLat,
         gridSizeLng |-> gridSizeLng,
         latCells |-> MathCeilDiv(bounds.max.lat - bounds.min.lat, gridSizeLat),
         lngCells |-> MathCeilDiv(bounds.max.lng - bounds.min.lng, gridSizeLng)]

\* main.js:659-669: the cell as GeoJSON, positions <<lng, lat>>
main_cellGeoJSON(c) ==
    PolygonGeoJSON(<< <<c.lng1, c.lat1>>, <<c.lng1, c.lat2>>, <<c.lng2, c.lat2>>,
                      <<c.lng2, c.lat1>>, <<c.lng1, c.lat1>> >>)

\* the cells numbered down the columns instead of along the rows
main_cellNumber_columnMajor(i, j, latCells, lngCells) == j * latCells + i + 1

\* the multiplier taken from the row count instead of the column count
main_cellNumber_rowCount(i, j, latCells, lngCells) == i * latCells + j + 1

\* the row left out of the number
main_cellNumber_columnOnly(i, j, latCells, lngCells) == j + 1

\* main.js:673
main_cellNumber(i, j, latCells, lngCells) == i * lngCells + j + 1

\* the cells of the earlier grid left in the array
main_resetGridCells_keep(cellsBefore) == cellsBefore

\* main.js:625: gridCells = []
main_resetGridCells(cellsBefore) == <<>>

\* main.js:633-685: for j (columns) { ... push ... } of row i, as what the iterations
\* for columns 0..j register: gridCells entries and the layers added to the group.
RECURSIVE main_columnLoop(_, _, _, _)
main_columnLoop(i, j, g, geojson) ==
    IF j < 0 THEN [gridCells |-> <<>>, gridGroup |-> <<>>]
    ELSE LET before == main_columnLoop(i, j - 1, g, geojson)
             cellPolygon == CellLayer(g.bounds, g.gridSizeLat, g.gridSizeLng, i, j)
             cellNumber == main_cellNumber(i, j, g.latCells, g.lngCells)
         IN  IF isPolygonWithinField(main_cellGeoJSON(cellPolygon), geojson)
                THEN [gridCells |-> Append(before.gridCells,
                                           [number |-> cellNumber, layer |-> cellPolygon]),
                      gridGroup |-> Append(before.gridGroup, cellPolygon)]
                ELSE before

\* the identity taken from the place of the cell in the gridCells array
RECURSIVE main_gridLoop_compact(_, _, _, _)
main_gridLoop_compact(i, g, geojson, acc) ==
    IF i < 0 THEN acc
    ELSE LET before == main_gridLoop_compact(i - 1, g, geojson, acc)
             row == main_columnLoop(i, g.lngCells - 1, g, geojson)
             all == before.gridCells \o row.gridCells
         IN  [gridCells |-> [k \in DOMAIN all |-> [number |-> k, layer |-> all[k].layer]],
              gridGroup |-> before.gridGroup \o row.gridGroup]

\* main.js:632-686: for i (rows) { for j (columns) { ... } }, as what rows 0..i add
\* to acc = [gridCells, gridGroup], the array and the group before the loop
RECURSIVE main_gridLoop(_, _, _, _)
main_gridLoop(i, g, geojson, acc) ==
    IF i < 0 THEN acc
    ELSE LET before == main_gridLoop(i - 1, g, geojson, acc)
             row == main_columnLoop(i, g.lngCells - 1, g, geojson)
         IN  [gridCells |-> before.gridCells \o row.gridCells,
              gridGroup |-> before.gridGroup \o row.gridGroup]

\* The call as a whole: what it returns and what it leaves in the global gridCells.
main_generateFieldGrid(geojson, cellsBefore) ==
    IF NoCoordinates(geojson)
       THEN [returned |-> NoLayer, gridCells |-> cellsBefore]
       ELSE LET g == main_gridGeometry(geojson.coordinates[1])
                out == main_gridLoop(g.latCells - 1, g, geojson,
                                     [gridCells |-> main_resetGridCells(cellsBefore),
                                      gridGroup |-> <<>>])
            IN  [returned |-> <<out.gridGroup>>, gridCells |-> out.gridCells]

(***************************************************************************)
(* generateFieldGrid of mobile.js:2380-2438.  The call site passes a       *)
(* second argument (mobile.js:561); the function declares one parameter.   *)
(***************************************************************************)
mobile_gridGeometry(coords) ==
    LET bounds == getBoundsFromCoordinates(coords)
        gridSizeLat == mobile_gridSizeMeters * latDegreePerMeter
        gridSizeLng == mobile_gridSizeMeters * lngDegreePerMeter(bounds)
    IN  [bounds |-> bounds,
         gridSizeLat |-> gridSizeLat,
         gridSizeLng |-> gridSizeLng,
         latCells |-> MathCeilDiv(bounds.max.lat - bounds.min.lat, gridSizeLat),
         lngCells |-> MathCeilDiv(bounds.max.lng - bounds.min.lng, gridSizeLng)]

\* mobile.js:2412: L.polygon(corners).getBounds().getCenter(), as <<lat, lng>>.
\* The cell sizes are even numbers of lattice units, so the midpoint is on the lattice.
mobile_cellCenter(c) == <<(c.lat1 + c.lat2) \div 2, (c.lng1 + c.lng2) \div 2>>

\* mobile.js:2414: coords.map(c => [c[1], c[0]])
SwapPositions(coords) == [k \in DOMAIN coords |-> <<coords[k][2], coords[k][1]>>]

\* mobile.js:2414: the membership test of one cell
mobile_cellIncluded(c, coords) ==
    mobile_isPointInPolygon(mobile_cellCenter(c), SwapPositions(coords))

\* mobile.js:2424
mobile_cellNumber(i, j, latCells, lngCells) == i * lngCells + j + 1

\* mobile.js:2405-2434: for j (columns) of row i, as the layers the iterations for
\* columns 0..j add to gridGroup, each with the number of its popup
RECURSIVE mobile_columnLoop(_, _, _, _)
mobile_columnLoop(i, j, g, coords) ==
    IF j < 0 THEN <<>>
    ELSE LET before == mobile_columnLoop(i, j - 1, g, coords)
             cellPolygon == CellLayer(g.bounds, g.gridSizeLat, g.gridSizeLng, i, j)
             cellNumber == mobile_cellNumber(i, j, g.latCells, g.lngCells)
         IN  IF mobile_cellIncluded(cellPolygon, coords)
                THEN Append(before, [number |-> cellNumber, layer |-> cellPolygon])
                ELSE before

\* each row put in front of the rows before it
RECURSIVE mobile_gridLoop_unshift(_, _, _)
mobile_gridLoop_unshift(i, g, coords) ==
    IF i < 0 THEN <<>>
    ELSE mobile_columnLoop(i, g.lngCells - 1, g, coords) \o mobile_gridLoop_unshift(i - 1, g, coords)

\* mobile.js:2404-2435: for i (rows) { for j (columns) { ... } }, rows 0..i
RECURSIVE mobile_gridLoop(_, _, _)
mobile_gridLoop(i, g, coords) ==
    IF i < 0 THEN <<>>
    ELSE mobile_gridLoop(i - 1, g, coords) \o mobile_columnLoop(i, g.lngCells - 1, g, coords)

mobile_generateFieldGrid(geojson, cellSize) ==
    IF NoCoordinates(geojson) THEN NoLayer
    ELSE LET g == mobile_gridGeometry(geojson.coordinates[1])
         IN  <<mobile_gridLoop(g.latCells - 1, g, geojson.coordinates[1])>>

(***************************************************************************)
(* Inputs: boundary rings on the lattice.  A ring is a closed sequence of  *)
(* GeoJSON positions <<lng, lat>>.  The vertices of the desktop page lie   *)
(* half a cell apart (a cell is then cut through its middle as well as     *)
(* along its sides); those of the mobile page a whole cell apart, which    *)
(* keeps the cell centres the mobile script tests off the lattice lines.   *)
(***************************************************************************)
Lattice(spacing) == {k * spacing : k \in 0..MaxCoord}
Positions(spacing) == Lattice(spacing) \X Lattice(spacing)
PositionsOf(p) ==
    IF p = "desktop" THEN Positions((main_gridSizeMeters * latDegreePerMeter) \div 2)
    ELSE Positions(mobile_gridSizeMeters * latDegreePerMeter)
Before(a, b) == a[1] < b[1] \/ (a[1] = b[1] /\ a[2] < b[2])

\* every triangle on the positions P, once, listed from its first position in the order Before
Triangles(P) ==
    {<<t[1], t[2], t[3], t[1]>> :
        t \in {u \in P \X P \X P : Before(u[1], u[2]) /\ Before(u[2], u[3])}}

RectangleRing(x0, y0, x1, y1) == << <<x0, y0>>, <<x1, y0>>, <<x1, y1>>, <<x0, y1>>, <<x0, y0>> >>

\* every axis-aligned rectangle with its corners on P
Rectangles(P) ==
    {RectangleRing(a[1], a[2], b[1], b[2]) :
        <<a, b>> \in {c \in P \X P : c[1][1] < c[2][1] /\ c[1][2] < c[2][2]}}

\* a ring whose positions are all equal
PointRings(P) == {<<q, q, q, q>> : q \in P}

RingsOn(P) == Triangles(P) \cup Rectangles(P) \cup PointRings(P)

\* A rectangle 100 m wide and 50 m high with its south-west corner at the lattice origin:
\* 50 m of latitude, and 100 m of longitude at the scale of its own centre latitude.
ScenarioHeight == 50 * latDegreePerMeter
ScenarioWidth == 100 * latDegreePerMeter * InvCos(ScenarioHeight)
ScenarioRing == RectangleRing(0, 0, ScenarioWidth, ScenarioHeight)

Pages == {"desktop", "mobile"}

\* The unit square [(0,0),(1,0),(1,1),(0,1),(0,0)] in the unit for which the grid of
\* the page cuts it into quarters along each axis: four cells of the page up, four
\* cells across at the scale of its own centre latitude.
UnitSquareHeight(p) ==
    4 * (IF p = "desktop" THEN main_gridSizeMeters ELSE mobile_gridSizeMeters) * latDegreePerMeter
UnitSquareWidth(p) == UnitSquareHeight(p) * InvCos(UnitSquareHeight(p))
UnitSquareRing(p) == RectangleRing(0, 0, UnitSquareWidth(p), UnitSquareHeight(p))

RingsOf(p) ==
    IF p = "desktop" THEN RingsOn(PositionsOf(p)) \cup {UnitSquareRing(p)}
    ELSE RingsOn(PositionsOf(p)) \cup {ScenarioRing, UnitSquareRing(p)}

\* the second argument at the mobile call site (mobile.js:561 passes 5)
CellSizeArgs == {5, 10}

(***************************************************************************)
(* main.js page: the boundaries a session meets                            *)
(***************************************************************************)
BoxRing == RectangleRing(0, 0, MaxCoord, MaxCoord)
LowerTriangle == << <<0, 0>>, <<MaxCoord, 0>>, <<MaxCoord, MaxCoord>>, <<0, 0>> >>
UpperTriangle == << <<0, 0>>, <<MaxCoord, MaxCoord>>, <<0, MaxCoord>>, <<0, 0>> >>
MainRings == {BoxRing, LowerTriangle, UpperTriangle}

MaxFields == 2        \* field ids 1..MaxFields
MaxDrawn == 2         \* polygons held in drawnItems at once
FieldIds == 1..MaxFields

\* a Polygon with no ring at all: coordinates = []
EmptyPolygon == [type |-> "Polygon", coordinates |-> <<>>]

\* what GET /api/field/<id> can answer (main.js:854-862)
LoadResponses ==
    {[kind |-> k] : k \in {"notOk", "noBoundary", "unparseable"}}
    \cup {[kind |-> "boundary", boundary |-> b] :
             b \in {PolygonGeoJSON(r) : r \in MainRings}
                   \cup {FeatureGeoJSON(r) : r \in MainRings} \cup {EmptyPolygon}}

\* L.polygon options of a grid cell, main.js:648-655
main_defaultStyle == [color |-> "#94a3b8", weight |-> "0.6", fillColor |-> "#000000", fillOpacity |-> "0.0"]

DefaultStyles(cells) == [k \in DOMAIN cells |-> main_defaultStyle]

(***************************************************************************)
(* Telemetry: updateGridStylesFromMapping, main.js:701-719, and            *)
(* ingestGridDataFromRTDB, main.js:722-742                                 *)
(***************************************************************************)
TelemetryIds == {1, 99}
Statuses == {"ok", "warn", "critical"}
Mappings == UNION {[D -> Statuses] : D \in SUBSET TelemetryIds}

\* layer.setStyle(options): the given options replace, the others stay
setStyle(style, options) ==
    [k \in DOMAIN style |-> IF k \in DOMAIN options THEN options[k] ELSE style[k]]

\* a cell without an entry flips between the default and the slate outline
main_styleFor_toggle(style, number, mapping) ==
    IF number \notin DOMAIN mapping
       THEN IF style.weight = "0.6"
               THEN setStyle(style, [fillOpacity |-> "0.0", color |-> "#94a3b8", weight |-> "0.8"])
               ELSE setStyle(style, [fillOpacity |-> "0.0", color |-> "#94a3b8", weight |-> "0.6"])
    ELSE IF mapping[number] = "critical"
       THEN setStyle(style, [fillColor |-> "#ef4444", fillOpacity |-> "0.35",
                             color |-> "#b91c1c", weight |-> "1.2"])
    ELSE IF mapping[number] = "warn"
       THEN setStyle(style, [fillColor |-> "#f59e0b", fillOpacity |-> "0.25",
                             color |-> "#b45309", weight |-> "1.0"])
    ELSE setStyle(style, [fillColor |-> "#22c55e", fillOpacity |-> "0.15",
                          color |-> "#15803d", weight |-> "0.8"])

\* a cell without an entry styled like a cell classified ok
main_styleFor_absentOk(style, number, mapping) ==
    IF number \in DOMAIN mapping /\ mapping[number] = "critical"
       THEN setStyle(style, [fillColor |-> "#ef4444", fillOpacity |-> "0.35",
                             color |-> "#b91c1c", weight |-> "1.2"])
    ELSE IF number \in DOMAIN mapping /\ mapping[number] = "warn"
       THEN setStyle(style, [fillColor |-> "#f59e0b", fillOpacity |-> "0.25",
                             color |-> "#b45309", weight |-> "1.0"])
    ELSE setStyle(style, [fillColor |-> "#22c55e", fillOpacity |-> "0.15",
                          color |-> "#15803d", weight |-> "0.8"])

\* main.js:704-717: the style one cell is left with
main_styleFor(style, number, mapping) ==
    IF number \notin DOMAIN mapping
       THEN setStyle(style, [fillOpacity |-> "0.0", color |-> "#94a3b8"])
    ELSE IF mapping[number] = "critical"
       THEN setStyle(style, [fillColor |-> "#ef4444", fillOpacity |-> "0.35",
                             color |-> "#b91c1c", weight |-> "1.2"])
    ELSE IF mapping[number] = "warn"
       THEN setStyle(style, [fillColor |-> "#f59e0b", fillOpacity |-> "0.25",
                             color |-> "#b45309", weight |-> "1.0"])
    ELSE setStyle(style, [fillColor |-> "#22c55e", fillOpacity |-> "0.15",
                          color |-> "#15803d", weight |-> "0.8"])

\* the cells the mapping has no entry for dropped from the array
main_updateGridStyles_dropAbsent(cells, styles, mapping) ==
    LET kept == SelectSeq([k \in DOMAIN cells |-> k], LAMBDA k : cells[k].number \in DOMAIN mapping)
    IN  [gridCells |-> [k \in DOMAIN kept |-> cells[kept[k]]],
         cellStyle |-> [k \in DOMAIN kept |->
                           main_styleFor(styles[kept[k]], cells[kept[k]].number, mapping)]]

\* main.js:703-718: gridCells.forEach(({ number, layer }) => layer.setStyle(...)),
\* as the array and the styles of its layers after the loop
main_updateGridStyles(cells, styles, mapping) ==
    [gridCells |-> cells,
     cellStyle |-> [k \in DOMAIN cells |-> main_styleFor(styles[k], cells[k].number, mapping)]]

\* highlightSelectedCell(layer), main.js:692-697, layer being that of the k-th cell:
\* every registered layer gets weight 0.6, then the selected one weight 2
main_highlightSelectedCell(styles, k) ==
    [j \in DOMAIN styles |->
        IF j = k THEN setStyle(setStyle(styles[j], [weight |-> "0.6"]), [weight |-> "2"])
        ELSE setStyle(styles[j], [weight |-> "0.6"])]

\* A reading of snapshot.cells[key].moisture: undefined (no cell object or no member),
\* null, the empty string, a text that is no number, or a number.
\* The numbers are those on either side of the two thresholds.
MoistureValues == {29, 30, 39, 40}
Readings ==
    {[kind |-> k, value |-> 0] : k \in {"undefined", "null", "empty", "text"}}
    \cup {[kind |-> "number", value |-> v] : v \in MoistureValues}

\* Number(x), main.js:730: NaN for undefined and for a text that is no number,
\* 0 for null and for the empty string
Number(reading) ==
    IF reading.kind \in {"undefined", "text"} THEN [nan |-> TRUE, value |-> 0]
    ELSE [nan |-> FALSE, value |-> reading.value]

\* the thresholds taken inclusively
main_statusOf_inclusive(reading) ==
    LET moisture == Number(reading)
    IN  IF moisture.nan THEN "ok"
        ELSE IF moisture.value <= 30 THEN "critical"
        ELSE IF moisture.value <= 40 THEN "warn"
        ELSE "ok"

\* main.js:731-735
main_statusOf(reading) ==
    LET moisture == Number(reading)
    IN  IF moisture.nan THEN "ok"
        ELSE IF moisture.value < 30 THEN "critical"
        ELSE IF moisture.value < 40 THEN "warn"
        ELSE "ok"

\* main.js:727-737: the mapping built from snapshot.cells
main_mappingOf(cells) == [key \in DOMAIN cells |-> main_statusOf(cells[key])]

\* the snapshots an RTDB listener can hand over: without cells, or with readings
Snapshots ==
    {[hasCells |-> FALSE, cells |-> <<>>]}
    \cup {[hasCells |-> TRUE, cells |-> c] :
             c \in UNION {[D -> Readings] : D \in SUBSET TelemetryIds}}

(***************************************************************************)
(* showGrid, main.js:559-575, as the values it leaves.  map.addLayer(null) *)
(* throws, so when generateFieldGrid returns null the statements after     *)
(* line 568 do not run and the exception leaves through the caller.        *)
(***************************************************************************)
showGrid(fb, gl, gv, gc, cs, mg) ==
    IF fb = NullGeoJSON
       THEN [gridLayer |-> gl, gridVisible |-> gv, gridCells |-> gc, cellStyle |-> cs,
             mapGrid |-> mg, threw |-> FALSE, computed |-> FALSE]
       ELSE LET removed == IF gl # NoLayer THEN mg \ {gl[1]} ELSE mg
                gen == main_generateFieldGrid(fb, gc)
            IN  IF gen.returned = NoLayer
                   THEN [gridLayer |-> NoLayer, gridVisible |-> gv, gridCells |-> gen.gridCells,
                         cellStyle |-> cs, mapGrid |-> removed,
                         threw |-> TRUE, computed |-> FALSE]
                   ELSE [gridLayer |-> gen.returned, gridVisible |-> TRUE,
                         gridCells |-> gen.gridCells,
                         cellStyle |-> DefaultStyles(gen.gridCells),
                         mapGrid |-> removed \cup {gen.returned[1]},
                         threw |-> FALSE, computed |-> TRUE]

\* hideGrid, main.js:580-588
hideGrid(gl, gv, mg) ==
    IF gl # NoLayer
       THEN [gridLayer |-> NoLayer, gridVisible |-> FALSE, mapGrid |-> mg \ {gl[1]}]
       ELSE [gridLayer |-> gl, gridVisible |-> gv, mapGrid |-> mg]

\* ghost: the boundary the last completed grid computation ran on, and how many
\* computations ran since fieldBoundary last changed (capped at 2)
Computed(h, fb) == [on |-> fb, runs |-> IF h.runs < 2 THEN h.runs + 1 ELSE 2]
BoundaryChanged(h) == [on |-> h.on, runs |-> 0]

ApplyShowGrid(r) ==
    /\ gridLayer' = r.gridLayer
    /\ gridVisible' = r.gridVisible
    /\ gridCells' = r.gridCells
    /\ cellStyle' = r.cellStyle
    /\ mapGrid' = r.mapGrid

(***************************************************************************)
(* mobile.js page: sessions, the saved field and the gridded view          *)
(* (specification SpecMobile)                                              *)
(***************************************************************************)
MaxUsers == 2         \* accounts 1..MaxUsers
MaxInFlight == 1      \* requests awaiting their response at once
MaxTimers == 2        \* setTimeout callbacks pending at once
MaxLogins == 2        \* sign-ins in one run of the page
Users == 1..MaxUsers
NoUser == 0                           \* currentUser / authToken that is null

\* the rings of the fields met on the mobile page, on the mobile lattice
MobileBox == ScalePositions(BoxRing, mobile_gridSizeMeters * latDegreePerMeter)
MobileTriangle == ScalePositions(LowerTriangle, mobile_gridSizeMeters * latDegreePerMeter)

\* the field an account has stored before the session, the field it stores by a save,
\* and the mock options of loadFieldList (mobile.js:1014-1018)
StoredFieldId(u) == u
SavedFieldId(u) == MaxUsers + u
MockFieldIds == {101, 102, 103}

\* a Leaflet polygon layer: its ring, and (ghost) the account whose field it depicts
PolygonLayer(r, u) == [ring |-> r, owner |-> u]

\* the part of the page state that the view helpers act on
View ==
    [drawnLayer |-> mobile_drawnLayer, mapPolygons |-> mobile_mapPolygons,
     currentFieldId |-> mobile_currentFieldId, griddedMap |-> mobile_griddedMap,
     shownSection |-> mobile_shownSection, saveEnabled |-> mobile_saveEnabled,
     timers |-> mobile_timers, requested |-> mobile_requested]

SetView(v) ==
    /\ mobile_drawnLayer' = v.drawnLayer
    /\ mobile_mapPolygons' = v.mapPolygons
    /\ mobile_currentFieldId' = v.currentFieldId
    /\ mobile_griddedMap' = v.griddedMap
    /\ mobile_shownSection' = v.shownSection
    /\ mobile_saveEnabled' = v.saveEnabled
    /\ mobile_timers' = v.timers
    /\ mobile_requested' = v.requested

LayersIn(l) == {l[k] : k \in DOMAIN l}

\* returnToMainMap, mobile.js:588-601
mobile_returnToMainMap(v) ==
    [v EXCEPT !.shownSection = "main", !.griddedMap = NoLayer, !.requested = NoLayer]

\* clearMapStateAndUI, mobile.js:459-480
mobile_clearMapStateAndUI(v) ==
    LET removed == [v EXCEPT !.mapPolygons = @ \ LayersIn(v.drawnLayer),
                             !.drawnLayer = NoLayer]
    IN  [mobile_returnToMainMap(removed) EXCEPT !.currentFieldId = NoField,
                                                !.saveEnabled = FALSE]

\* displayGriddedField, mobile.js:527-541 and 582: the sections are switched, an
\* existing gridded map is removed and the callback is scheduled; no pending callback
\* is cancelled.  latest (ghost) marks the callback of the most recent call.
mobile_displayGriddedField(v, fieldLayer) ==
    [v EXCEPT !.shownSection = "gridded",
              !.griddedMap = NoLayer,
              !.timers = Append([k \in DOMAIN @ |-> [@[k] EXCEPT !.latest = FALSE]],
                                [delay |-> 10, layer |-> fieldLayer, latest |-> TRUE]),
              !.requested = <<fieldLayer>>]

\* the callback of displayGriddedField, mobile.js:542-581.  L.map throws when the
\* container already holds a map; fieldLayer.toGeoJSON() throws for a null layer,
\* after the map was made.
mobile_griddedFieldCallback(v, timer) ==
    IF v.griddedMap # NoLayer THEN v
    ELSE IF timer.layer = NoLayer
       THEN [v EXCEPT !.griddedMap = <<[field |-> NoLayer, grid |-> NoLayer,
                                        latest |-> timer.latest]>>]
    ELSE [v EXCEPT !.griddedMap =
             <<[field |-> timer.layer,
                grid |-> mobile_generateFieldGrid(PolygonGeoJSON(timer.layer[1].ring),
                                                  mobile_gridSizeMeters),
                latest |-> timer.latest]>>]

\* a request without the token check
mobile_makeAuthenticatedRequest_noCheck(token, call) ==
    [threw |-> FALSE, sent |-> {[call EXCEPT !.token = token]}]

\* makeAuthenticatedRequest, mobile.js:1885-1906: up to the fetch
mobile_makeAuthenticatedRequest(token, call) ==
    IF token = NoUser THEN [threw |-> TRUE, sent |-> {}]
    ELSE [threw |-> FALSE, sent |-> {[call EXCEPT !.token = token]}]

\* makeAuthenticatedRequest, mobile.js:1906-1914: after the fetch
mobile_afterFetch(status) ==
    IF status = "401" THEN [signOut |-> TRUE, threw |-> TRUE, ok |-> FALSE]
    ELSE [signOut |-> FALSE, threw |-> FALSE, ok |-> status = "ok"]

Call(fn, fieldId, r, then) ==
    [fn |-> fn, token |-> NoUser, fieldId |-> fieldId, ring |-> r, then |-> then]

\* The backend (FIREBASE_SETUP.md:161-164): a field operation is answered for the
\* account of the token and on that account's fields only; any request can also fail
\* or be answered 401.
ServerOk(call) ==
    CASE call.fn \in {"loadFieldList", "loadUserSavedField"} ->
            {[status |-> "ok", fields |-> {f \in mobile_server : f.userId = call.token},
              server |-> mobile_server]}
      [] call.fn = "loadFieldData" ->
            {[status |-> "ok", fields |-> {f}, server |-> mobile_server] :
                f \in {g \in mobile_server : g.fieldId = call.fieldId /\ g.userId = call.token}}
      [] call.fn = "saveDrawnField" ->
            IF call.token = NoUser THEN {}
            ELSE LET f == [fieldId |-> SavedFieldId(call.token), userId |-> call.token,
                           ring |-> call.ring]
                 IN  {[status |-> "ok", fields |-> {f},
                       server |-> {g \in mobile_server : g.fieldId # f.fieldId} \cup {f}]}
      [] call.fn = "deleteCurrentField" ->
            {[status |-> "ok", fields |-> {}, server |-> mobile_server \ {f}] :
                f \in {g \in mobile_server : g.fieldId = call.fieldId /\ g.userId = call.token}}

ServerAnswers(call) ==
    ServerOk(call)
    \cup {[status |-> s, fields |-> {}, server |-> mobile_server] : s \in {"error", "401"}}

\* auth.signOut() and the onAuthStateChanged(null) it causes, mobile.js:1132-1136
SignedOut(after) == after.signOut

\* loadFieldList, mobile.js:995-1038: the request
mobile_loadFieldList(token, then) ==
    mobile_makeAuthenticatedRequest(token, Call("loadFieldList", NoField, <<>>, then))

NoHandle == 0                         \* a watch or timer id that is null; the browser's ids are positive
\* the controls setupEventListeners attaches a handler to, of which these are studied:
\* three given a function by name (mobile.js:1564, 1581, 1605) and two given a new
\* closure at each call (mobile.js:1522, 1624)
NamedControls == {"save-field-btn", "delete-field-btn", "logout-btn"}
ClosureControls == {"field-select", "start-deployment-btn"}
Controls == NamedControls \cup ClosureControls
NoControls == [c \in Controls |-> 0]   \* no control has a handler
NoClick == [control |-> "none", requests |-> 0, maps |-> 0]

\* the sign-in steps, the watches and timers, and the payload are not under study
AuthIdle ==
    /\ mobile_currentScreen = "splash"
    /\ auth_currentUser = NoUser
    /\ auth_notifications = <<>>
    /\ mobile_suspended = {}
    /\ mobile_handlers = NoControls
    /\ mobile_started = NoClick
    /\ mobile_clicks = 0

BackgroundIdle ==
    /\ geo_watches = {}
    /\ geo_issued = 0
    /\ mobile_watchId = NoHandle
    /\ mobile_probeMarker = NoLayer
    /\ mobile_trackingPolyline = <<>>
    /\ background_last = "none"
    /\ timer_intervals = {}
    /\ timer_issued = 0
    /\ autoRefreshInterval = NoHandle
    /\ mobile_autoRefreshHandle = NoHandle

CloseIdle == mobile_latlngs = <<>> /\ mobile_boundary = <<>>

SideIdle == AuthIdle /\ BackgroundIdle /\ CloseIdle

MobileInit ==
    /\ mobile_currentUser = NoUser
    /\ mobile_authToken = NoUser
    /\ mobile_drawnLayer = NoLayer
    /\ mobile_mapPolygons = {}
    /\ mobile_currentFieldId = NoField
    /\ mobile_griddedMap = NoLayer
    /\ mobile_shownSection = "main"
    /\ mobile_saveEnabled = FALSE
    /\ mobile_fieldSelect = {}
    /\ mobile_timers = <<>>
    /\ mobile_inFlight = {}
    /\ mobile_requested = NoLayer
    /\ mobile_last401 = "none"
    /\ mobile_lastAlert = NoAlert
    /\ mobile_logins = 0
    /\ mobile_isAuthenticated = FALSE

\* no mobile session is under study
MobileIdle == MobileInit /\ mobile_server = {}

\* the page is opened; each account has a stored field
MobilePageInit ==
    /\ MobileInit
    /\ mobile_server = {[fieldId |-> StoredFieldId(u), userId |-> u, ring |-> MobileBox] :
                            u \in Users}

\* onAuthStateChanged(user), mobile.js:1094-1119, up to the request of loadFieldList
\* in initializeMainApp (mobile.js:235-241, 753)
AuthStateChanged_User(u) ==
    /\ mobile_currentUser = NoUser
    /\ Cardinality(mobile_inFlight) < MaxInFlight
    /\ mobile_logins < MaxLogins
    /\ mobile_logins' = mobile_logins + 1
    /\ mobile_currentUser' = u
    /\ mobile_isAuthenticated' = TRUE
    /\ mobile_authToken' = u
    /\ mobile_inFlight' = mobile_inFlight \cup mobile_loadFieldList(u, "loadUserSavedField").sent
    /\ mobile_last401' = "none"
    /\ mobile_lastAlert' = NoAlert
    /\ UNCHANGED <<sideVars, mainVars, callVars>>
    /\ UNCHANGED <<mobile_drawnLayer, mobile_mapPolygons, mobile_currentFieldId,
                   mobile_griddedMap, mobile_shownSection, mobile_saveEnabled,
                   mobile_fieldSelect, mobile_timers, mobile_requested, mobile_server>>

\* logout, mobile.js:1482-1506
Logout ==
    /\ mobile_currentUser # NoUser
    /\ mobile_currentUser' = NoUser
    /\ mobile_isAuthenticated' = FALSE
    /\ mobile_authToken' = NoUser
    /\ mobile_last401' = "none"
    /\ mobile_lastAlert' = NoAlert
    /\ UNCHANGED <<sideVars, mainVars, callVars, mobile_logins>>
    /\ UNCHANGED <<mobile_drawnLayer, mobile_mapPolygons, mobile_currentFieldId,
                   mobile_griddedMap, mobile_shownSection, mobile_saveEnabled,
                   mobile_fieldSelect, mobile_timers, mobile_inFlight, mobile_requested,
                   mobile_server>>

\* every outcome reported as a success
mobile_saveAlert_success(after) == "Field saved successfully"

\* the alert of saveDrawnField, mobile.js:2032, 2040 and 2044
mobile_saveAlert(after) ==
    IF after.threw THEN "Network error saving field"
    ELSE IF after.ok THEN "Field saved successfully"
    ELSE "Failed to save field"

\* what every response does first: the call is no longer in flight, the backend has
\* acted, and a 401 has signed the user out
Answered(call, answer, after) ==
    /\ call \in mobile_inFlight
    /\ answer \in ServerAnswers(call)
    /\ mobile_server' = answer.server
    /\ mobile_currentUser' = IF SignedOut(after) THEN NoUser ELSE mobile_currentUser
    /\ mobile_isAuthenticated' = IF SignedOut(after) THEN FALSE ELSE mobile_isAuthenticated
    /\ mobile_authToken' = IF SignedOut(after) THEN NoUser ELSE mobile_authToken
    /\ mobile_last401' = IF answer.status = "401" THEN call.fn ELSE "none"
    /\ mobile_lastAlert' = IF call.fn = "saveDrawnField" THEN mobile_saveAlert(after)
                           ELSE NoAlert
    /\ UNCHANGED <<sideVars, mainVars, callVars, mobile_logins>>

\* loadFieldList after its request, mobile.js:1003-1037, and for the call made by
\* onAuthStateChanged the start of loadUserSavedField, mobile.js:1122 and 367-380
Response_loadFieldList(call, answer) ==
    LET after == mobile_afterFetch(answer.status)
    IN  /\ call.fn = "loadFieldList"
        /\ Answered(call, answer, after)
        /\ mobile_fieldSelect' = IF after.ok THEN {f.fieldId : f \in answer.fields}
                                 ELSE MockFieldIds
        /\ IF call.then = "loadUserSavedField" /\ mobile_currentUser' # NoUser
                                              /\ mobile_authToken' # NoUser
              THEN /\ SetView(mobile_clearMapStateAndUI(View))
                   /\ mobile_inFlight' =
                         (mobile_inFlight \ {call}) \cup
                         mobile_makeAuthenticatedRequest(
                             mobile_authToken',
                             Call("loadUserSavedField", NoField, <<>>, "none")).sent
              ELSE /\ SetView(View)
                   /\ mobile_inFlight' = mobile_inFlight \ {call}

\* loadUserSavedField after its request, mobile.js:381-452
Response_loadUserSavedField(call, answer) ==
    LET after == mobile_afterFetch(answer.status)
        own == {f \in answer.fields : f.userId = mobile_currentUser'}
    IN  /\ call.fn = "loadUserSavedField"
        /\ Answered(call, answer, after)
        /\ mobile_inFlight' = mobile_inFlight \ {call}
        /\ UNCHANGED mobile_fieldSelect
        /\ IF after.threw \/ (after.ok /\ answer.fields # {} /\ mobile_currentUser' = NoUser)
              THEN SetView(mobile_clearMapStateAndUI(View))
           ELSE IF ~after.ok \/ own = {}
              THEN SetView(View)
           ELSE /\ Len(mobile_timers) < MaxTimers
                /\ \E userField \in own :
                      LET onMap == mobile_drawnLayer # NoLayer
                                   /\ mobile_drawnLayer[1] \in mobile_mapPolygons
                          set == [View EXCEPT
                                     !.mapPolygons = IF onMap THEN @ \ LayersIn(mobile_drawnLayer)
                                                     ELSE @,
                                     !.drawnLayer = <<PolygonLayer(userField.ring,
                                                                   userField.userId)>>,
                                     !.currentFieldId = userField.fieldId,
                                     !.saveEnabled = FALSE]
                          shown == mobile_returnToMainMap(set)
                      IN  SetView([shown EXCEPT
                                      !.timers = Append(@, [delay |-> 50, layer |-> NoLayer,
                                                            latest |-> FALSE])])

\* the 50 ms callback of loadUserSavedField, mobile.js:444-446
Timer_loadUserSavedField ==
    /\ mobile_timers # <<>>
    /\ mobile_timers[1].delay = 50
    /\ SetView(mobile_displayGriddedField([View EXCEPT !.timers = Tail(@)],
                                          mobile_drawnLayer))
    /\ mobile_last401' = "none"
    /\ mobile_lastAlert' = NoAlert
    /\ UNCHANGED <<sideVars, mainVars, callVars, mobile_logins>>
    /\ UNCHANGED <<mobile_currentUser, mobile_isAuthenticated, mobile_authToken, mobile_fieldSelect,
                   mobile_inFlight, mobile_server>>

\* the timers without the k-th
WithoutTimer(timers, k) == SubSeq(timers, 1, k - 1) \o SubSeq(timers, k + 1, Len(timers))

\* the 10 ms callback of displayGriddedField, mobile.js:542-581; callbacks of equal
\* delay run in the order they were scheduled
Timer_displayGriddedField(k) ==
    /\ k \in DOMAIN mobile_timers
    /\ mobile_timers[k].delay = 10
    /\ \A j \in 1..(k - 1) : mobile_timers[j].delay # 10
    /\ SetView(mobile_griddedFieldCallback(
                   [View EXCEPT !.timers = WithoutTimer(@, k)], mobile_timers[k]))
    /\ mobile_last401' = "none"
    /\ mobile_lastAlert' = NoAlert
    /\ UNCHANGED <<sideVars, mainVars, callVars, mobile_logins>>
    /\ UNCHANGED <<mobile_currentUser, mobile_isAuthenticated, mobile_authToken, mobile_fieldSelect,
                   mobile_inFlight, mobile_server>>

\* Draw CREATED, mobile.js:341-350
Mobile_DrawCreated(r) ==
    /\ mobile_currentUser # NoUser
    /\ mobile_shownSection = "main"
    /\ LET layer == PolygonLayer(r, mobile_currentUser)
       IN  SetView([View EXCEPT
                       !.mapPolygons = (@ \ LayersIn(mobile_drawnLayer)) \cup {layer},
                       !.drawnLayer = <<layer>>,
                       !.saveEnabled = TRUE])
    /\ mobile_last401' = "none"
    /\ mobile_lastAlert' = NoAlert
    /\ UNCHANGED <<sideVars, mainVars, callVars, mobile_logins>>
    /\ UNCHANGED <<mobile_currentUser, mobile_isAuthenticated, mobile_authToken, mobile_fieldSelect,
                   mobile_inFlight, mobile_server>>

\* saveDrawnField, mobile.js:2001-2020: the click on the enabled save button
SaveDrawnField_Click ==
    /\ mobile_saveEnabled
    /\ mobile_drawnLayer # NoLayer
    /\ mobile_currentUser # NoUser
    /\ Cardinality(mobile_inFlight) < MaxInFlight
    /\ mobile_inFlight' = mobile_inFlight \cup
          mobile_makeAuthenticatedRequest(
              mobile_authToken,
              Call("saveDrawnField", NoField, mobile_drawnLayer[1].ring, "none")).sent
    /\ mobile_last401' = "none"
    /\ mobile_lastAlert' = NoAlert
    /\ UNCHANGED <<sideVars, mainVars, callVars, mobile_logins>>
    /\ UNCHANGED <<mobile_currentUser, mobile_isAuthenticated, mobile_authToken, mobile_drawnLayer,
                   mobile_mapPolygons, mobile_currentFieldId, mobile_griddedMap,
                   mobile_shownSection, mobile_saveEnabled, mobile_fieldSelect,
                   mobile_timers, mobile_requested, mobile_server>>

\* loadFieldList called at the end of a handler: its request, or the mock options of
\* its catch block when makeAuthenticatedRequest throws (mobile.js:1024-1036)
ThenLoadFieldList(call) ==
    LET request == mobile_loadFieldList(mobile_authToken', "none")
    IN  /\ mobile_inFlight' = (mobile_inFlight \ {call}) \cup request.sent
        /\ mobile_fieldSelect' = IF request.threw THEN MockFieldIds ELSE mobile_fieldSelect

\* saveDrawnField after its request, mobile.js:2021-2045
Response_saveDrawnField(call, answer) ==
    LET after == mobile_afterFetch(answer.status)
    IN  /\ call.fn = "saveDrawnField"
        /\ Answered(call, answer, after)
        /\ IF after.ok
              THEN /\ Len(mobile_timers) < MaxTimers
                   /\ \E f \in answer.fields :
                         SetView([mobile_displayGriddedField(
                                      [View EXCEPT !.currentFieldId = f.fieldId],
                                      mobile_drawnLayer)
                                  EXCEPT !.saveEnabled = FALSE])
                   /\ ThenLoadFieldList(call)
              ELSE /\ SetView(View)
                   /\ mobile_inFlight' = mobile_inFlight \ {call}
                   /\ UNCHANGED mobile_fieldSelect

\* deleteCurrentField, mobile.js:485-499
DeleteCurrentField_Click ==
    /\ mobile_currentUser # NoUser
    /\ mobile_currentFieldId # NoField
    /\ Cardinality(mobile_inFlight) < MaxInFlight
    /\ mobile_inFlight' = mobile_inFlight \cup
          mobile_makeAuthenticatedRequest(
              mobile_authToken,
              Call("deleteCurrentField", mobile_currentFieldId, <<>>, "none")).sent
    /\ mobile_last401' = "none"
    /\ mobile_lastAlert' = NoAlert
    /\ UNCHANGED <<sideVars, mainVars, callVars, mobile_logins>>
    /\ UNCHANGED <<mobile_currentUser, mobile_isAuthenticated, mobile_authToken, mobile_drawnLayer,
                   mobile_mapPolygons, mobile_currentFieldId, mobile_griddedMap,
                   mobile_shownSection, mobile_saveEnabled, mobile_fieldSelect,
                   mobile_timers, mobile_requested, mobile_server>>

\* deleteCurrentField after its request, mobile.js:501-521
Response_deleteCurrentField(call, answer) ==
    LET after == mobile_afterFetch(answer.status)
    IN  /\ call.fn = "deleteCurrentField"
        /\ Answered(call, answer, after)
        /\ IF after.ok
              THEN /\ SetView(mobile_clearMapStateAndUI(View))
                   /\ ThenLoadFieldList(call)
              ELSE /\ SetView(View)
                   /\ mobile_inFlight' = mobile_inFlight \ {call}
                   /\ UNCHANGED mobile_fieldSelect

\* the change handler of the field select, mobile.js:1521-1527, and loadFieldData up
\* to its request, mobile.js:2118-2120
FieldSelect_Change(id) ==
    /\ mobile_currentUser # NoUser
    /\ id \in mobile_fieldSelect \cup {NoField}
    /\ Cardinality(mobile_inFlight) < MaxInFlight
    /\ mobile_currentFieldId' = id
    /\ mobile_inFlight' =
          IF id = NoField THEN mobile_inFlight
          ELSE mobile_inFlight \cup
               mobile_makeAuthenticatedRequest(
                   mobile_authToken, Call("loadFieldData", id, <<>>, "none")).sent
    /\ mobile_last401' = "none"
    /\ mobile_lastAlert' = NoAlert
    /\ UNCHANGED <<sideVars, mainVars, callVars, mobile_logins>>
    /\ UNCHANGED <<mobile_currentUser, mobile_isAuthenticated, mobile_authToken, mobile_drawnLayer,
                   mobile_mapPolygons, mobile_griddedMap, mobile_shownSection,
                   mobile_saveEnabled, mobile_fieldSelect, mobile_timers,
                   mobile_requested, mobile_server>>

\* loadFieldData after its request and updateMapWithField, mobile.js:2121-2170
Response_loadFieldData(call, answer) ==
    LET after == mobile_afterFetch(answer.status)
    IN  /\ call.fn = "loadFieldData"
        /\ Answered(call, answer, after)
        /\ mobile_inFlight' = mobile_inFlight \ {call}
        /\ UNCHANGED mobile_fieldSelect
        /\ IF after.ok
              THEN \E f \in answer.fields :
                      SetView([View EXCEPT
                                  !.mapPolygons = {PolygonLayer(f.ring, f.userId)}])
              ELSE SetView(View)

\* the return button of the gridded view, mobile.js:1597-1600
ReturnToMainMap_Click ==
    /\ mobile_shownSection = "gridded"
    /\ SetView(mobile_returnToMainMap(View))
    /\ mobile_last401' = "none"
    /\ mobile_lastAlert' = NoAlert
    /\ UNCHANGED <<sideVars, mainVars, callVars, mobile_logins>>
    /\ UNCHANGED <<mobile_currentUser, mobile_isAuthenticated, mobile_authToken, mobile_fieldSelect,
                   mobile_inFlight, mobile_server>>

MobileNext ==
    \/ \E u \in Users : AuthStateChanged_User(u)
    \/ Logout
    \/ \E call \in mobile_inFlight : \E answer \in ServerAnswers(call) :
          Response_loadFieldList(call, answer)
    \/ \E call \in mobile_inFlight : \E answer \in ServerAnswers(call) :
          Response_loadUserSavedField(call, answer)
    \/ \E call \in mobile_inFlight : \E answer \in ServerAnswers(call) :
          Response_saveDrawnField(call, answer)
    \/ \E call \in mobile_inFlight : \E answer \in ServerAnswers(call) :
          Response_deleteCurrentField(call, answer)
    \/ \E call \in mobile_inFlight : \E answer \in ServerAnswers(call) :
          Response_loadFieldData(call, answer)
    \/ Timer_loadUserSavedField
    \/ \E k \in 1..MaxTimers : Timer_displayGriddedField(k)
    \/ Mobile_DrawCreated(MobileTriangle)
    \/ SaveDrawnField_Click
    \/ DeleteCurrentField_Click
    \/ \E id \in mobile_fieldSelect \cup {NoField} : FieldSelect_Change(id)
    \/ ReturnToMainMap_Click

(***************************************************************************)
(* The page                                                                *)
(***************************************************************************)
\* load: "locating", "fetching" (id is the stored id read at main.js:852) or "done"
NoPending == [load |-> "locating", id |-> NoField, save |-> NoField]

MainInit ==
    /\ fieldBoundary = NullGeoJSON
    /\ gridLayer = NoLayer
    /\ gridVisible = FALSE
    /\ gridCells = <<>>
    /\ cellStyle = <<>>
    /\ mapGrid = {}
    /\ drawnItems = {}
    /\ currentFieldId = NoField
    /\ storedFieldId \in FieldIds \cup {NoField}
    /\ pending = NoPending
    /\ handlersReady = FALSE
    /\ lastAlert = NoAlert
    /\ history = [on |-> NullGeoJSON, runs |-> 0]

\* no telemetry hook has run
NoHook == [hook |-> "none", mapping |-> <<>>, cells |-> <<>>]

CallIdle ==
    /\ page = "desktop" /\ ring = BoxRing /\ grid = <<>> /\ applied = NoHook
    /\ MobileIdle /\ SideIdle

Init == MainInit /\ CallIdle

\* initializeMap, main.js:105-108 and loadFieldData, main.js:849-854: after the
\* location is known, read the stored id; without one the handlers are registered.
LoadFieldData_Start ==
    /\ pending.load = "locating"
    /\ IF storedFieldId = NoField
          THEN /\ pending' = [pending EXCEPT !.load = "done"]
               /\ handlersReady' = TRUE
          ELSE /\ pending' = [pending EXCEPT !.load = "fetching", !.id = storedFieldId]
               /\ UNCHANGED handlersReady
    /\ UNCHANGED <<fieldBoundary, gridLayer, gridVisible, gridCells, cellStyle, mapGrid,
                   drawnItems, currentFieldId, storedFieldId, lastAlert, history>>
    /\ UNCHANGED <<callVars, mobileVars, sideVars>>

\* loadFieldData, main.js:855-873, then main.js:111-129 registers the handlers
LoadFieldData_Response(resp) ==
    /\ pending.load = "fetching"
    /\ pending' = [pending EXCEPT !.load = "done", !.id = NoField]
    /\ handlersReady' = TRUE
    /\ IF resp.kind # "boundary" \/ "coordinates" \notin DOMAIN resp.boundary
          THEN UNCHANGED <<fieldBoundary, gridLayer, gridVisible, gridCells, cellStyle,
                           mapGrid, drawnItems, currentFieldId, history>>
          ELSE LET r == showGrid(resp.boundary, gridLayer, gridVisible, gridCells,
                                 cellStyle, mapGrid)
               IN  /\ currentFieldId' = pending.id
                   /\ fieldBoundary' = resp.boundary
                   \* renderFieldPolygon, main.js:876-889
                   /\ drawnItems' = {IF Len(resp.boundary.coordinates) = 0 THEN <<>>
                                     ELSE resp.boundary.coordinates[1]}
                   /\ ApplyShowGrid(r)
                   /\ history' = IF r.computed THEN Computed(BoundaryChanged(history), resp.boundary)
                                 ELSE BoundaryChanged(history)
    /\ UNCHANGED <<storedFieldId, lastAlert>>
    /\ UNCHANGED <<callVars, mobileVars, sideVars>>

\* Draw CREATED, main.js:111-116
DrawCreated(r) ==
    /\ handlersReady
    /\ Cardinality(drawnItems \cup {r}) <= MaxDrawn
    /\ drawnItems' = drawnItems \cup {r}
    /\ fieldBoundary' = FeatureGeoJSON(r)
    /\ history' = BoundaryChanged(history)
    /\ UNCHANGED <<gridLayer, gridVisible, gridCells, cellStyle, mapGrid, currentFieldId,
                   storedFieldId, pending, handlersReady, lastAlert>>
    /\ UNCHANGED <<callVars, mobileVars, sideVars>>

\* Draw EDITED, main.js:118-129, for one edited polygon: old is reshaped into new
DrawEdited(old, new) ==
    /\ handlersReady
    /\ old \in drawnItems
    /\ new # old
    /\ drawnItems' = (drawnItems \ {old}) \cup {new}
    /\ fieldBoundary' = FeatureGeoJSON(new)
    /\ IF gridVisible
          THEN LET r == showGrid(FeatureGeoJSON(new), gridLayer, gridVisible, gridCells,
                                 cellStyle, mapGrid)
               IN  /\ ApplyShowGrid(r)
                   /\ history' = IF r.computed
                                    THEN Computed(BoundaryChanged(history), FeatureGeoJSON(new))
                                    ELSE BoundaryChanged(history)
          ELSE /\ UNCHANGED <<gridLayer, gridVisible, gridCells, cellStyle, mapGrid>>
               /\ history' = BoundaryChanged(history)
    /\ UNCHANGED <<currentFieldId, storedFieldId, pending, handlersReady, lastAlert>>
    /\ UNCHANGED <<callVars, mobileVars, sideVars>>

\* saveField, main.js:463-484: the click, up to the request being sent.
\* One save request is in flight at a time; id stands for the generated fieldId.
SaveField_Click(id) ==
    /\ pending.save = NoField
    /\ pending.load # "locating"
    /\ IF fieldBoundary = NullGeoJSON
          THEN /\ lastAlert' = "Please draw a field boundary first"
               /\ UNCHANGED pending
          ELSE /\ pending' = [pending EXCEPT !.save = id]
               /\ UNCHANGED lastAlert
    /\ UNCHANGED <<fieldBoundary, gridLayer, gridVisible, gridCells, cellStyle, mapGrid,
                   drawnItems, currentFieldId, storedFieldId, handlersReady, history>>
    /\ UNCHANGED <<callVars, mobileVars, sideVars>>

\* saveField, main.js:486-506: the response; the server echoes the fieldId it was sent
SaveField_Response(ok) ==
    /\ pending.save # NoField
    /\ pending' = [pending EXCEPT !.save = NoField]
    /\ IF ok
          THEN LET r == showGrid(fieldBoundary, gridLayer, gridVisible, gridCells,
                                 cellStyle, mapGrid)
               IN  /\ currentFieldId' = pending.save
                   /\ storedFieldId' = pending.save
                   /\ ApplyShowGrid(r)
                   /\ history' = IF r.computed THEN Computed(history, fieldBoundary) ELSE history
                   /\ lastAlert' = IF r.threw THEN "Failed to save field"
                                   ELSE "Field saved successfully"
          ELSE /\ lastAlert' = "Failed to save field"
               /\ UNCHANGED <<currentFieldId, storedFieldId, gridLayer, gridVisible,
                              gridCells, cellStyle, mapGrid, history>>
    /\ UNCHANGED <<fieldBoundary, drawnItems, handlersReady>>
    /\ UNCHANGED <<callVars, mobileVars, sideVars>>

\* clearMap, main.js:512-538
ClearMap ==
    /\ pending.load # "locating"
    /\ drawnItems' = {}
    /\ fieldBoundary' = NullGeoJSON
    /\ currentFieldId' = NoField
    /\ storedFieldId' = NoField
    /\ LET h == hideGrid(gridLayer, gridVisible, mapGrid)
       IN  /\ gridLayer' = h.gridLayer
           /\ gridVisible' = h.gridVisible
           /\ mapGrid' = h.mapGrid
    /\ history' = BoundaryChanged(history)
    /\ UNCHANGED <<gridCells, cellStyle, pending, handlersReady, lastAlert>>
    /\ UNCHANGED <<callVars, mobileVars, sideVars>>

\* toggleGrid, main.js:543-554
ToggleGrid ==
    /\ pending.load # "locating"
    /\ IF fieldBoundary = NullGeoJSON
          THEN /\ lastAlert' = "Please draw a field boundary first"
               /\ UNCHANGED <<gridLayer, gridVisible, gridCells, cellStyle, mapGrid, history>>
       ELSE IF gridVisible
          THEN LET h == hideGrid(gridLayer, gridVisible, mapGrid)
               IN  /\ gridLayer' = h.gridLayer
                   /\ gridVisible' = h.gridVisible
                   /\ mapGrid' = h.mapGrid
                   /\ UNCHANGED <<gridCells, cellStyle, lastAlert, history>>
          ELSE LET r == showGrid(fieldBoundary, gridLayer, gridVisible, gridCells,
                                 cellStyle, mapGrid)
               IN  /\ ApplyShowGrid(r)
                   /\ history' = IF r.computed THEN Computed(history, fieldBoundary) ELSE history
                   /\ UNCHANGED lastAlert
    /\ UNCHANGED <<fieldBoundary, drawnItems, currentFieldId, storedFieldId, pending,
                   handlersReady>>
    /\ UNCHANGED <<callVars, mobileVars, sideVars>>

\* updateGridStylesFromMapping, main.js:701-719: what it does to the page state
ApplyMapping(mapping) ==
    /\ LET r == main_updateGridStyles(gridCells, cellStyle, mapping)
       IN  /\ gridCells' = r.gridCells
           /\ cellStyle' = r.cellStyle
    /\ UNCHANGED <<fieldBoundary, gridLayer, gridVisible, mapGrid, drawnItems,
                   currentFieldId, storedFieldId, pending, handlersReady, lastAlert, history>>

\* updateGridStylesFromMapping, main.js:701-719, called while the page is in use
UpdateGridStylesFromMapping(mapping) ==
    /\ gridCells # <<>>
    /\ ApplyMapping(mapping)
    /\ cellStyle' # cellStyle
    /\ UNCHANGED <<callVars, mobileVars, sideVars>>

\* the page is loaded again: every script variable starts over, localStorage stays
PageReload ==
    /\ pending.load = "done"
    /\ fieldBoundary' = NullGeoJSON
    /\ gridLayer' = NoLayer
    /\ gridVisible' = FALSE
    /\ gridCells' = <<>>
    /\ cellStyle' = <<>>
    /\ mapGrid' = {}
    /\ drawnItems' = {}
    /\ currentFieldId' = NoField
    /\ pending' = NoPending
    /\ handlersReady' = FALSE
    /\ lastAlert' = NoAlert
    /\ history' = [on |-> NullGeoJSON, runs |-> 0]
    /\ UNCHANGED storedFieldId
    /\ UNCHANGED <<callVars, mobileVars, sideVars>>

Next ==
    \/ LoadFieldData_Start
    \/ \E resp \in LoadResponses : LoadFieldData_Response(resp)
    \/ \E r \in MainRings : DrawCreated(r)
    \/ \E old \in drawnItems, new \in MainRings : DrawEdited(old, new)
    \/ \E id \in FieldIds : SaveField_Click(id)
    \/ \E ok \in BOOLEAN : SaveField_Response(ok)
    \/ ClearMap
    \/ ToggleGrid
    \/ \E mapping \in Mappings : UpdateGridStylesFromMapping(mapping)
    \/ PageReload

Spec == Init /\ [][Next]_vars

(***************************************************************************)
(* One call of generateFieldGrid on a chosen boundary, for the properties  *)
(* of the function itself.  grid records the values of the call: the       *)
(* geometry (bounds, step, counts) and the cells it produced.              *)
(***************************************************************************)
CallInit ==
    /\ MainInit
    /\ storedFieldId = NoField
    /\ page \in Pages
    /\ ring \in RingsOf(page)
    /\ grid = <<>>
    /\ applied = NoHook
    /\ MobileIdle
    /\ SideIdle

\* main.js: generateFieldGrid(fieldBoundary) with fieldBoundary a Polygon (main.js:568)
Call_main_generateFieldGrid ==
    /\ page = "desktop"
    /\ grid = <<>>
    /\ LET out == main_generateFieldGrid(PolygonGeoJSON(ring), <<>>)
       IN  grid' = <<[geometry |-> main_gridGeometry(ring),
                      cells |-> out.gridCells,
                      group |-> out.returned[1],
                      cellSize |-> main_gridSizeMeters]>>
    /\ UNCHANGED <<page, ring, applied>>
    /\ UNCHANGED <<mainVars, mobileVars, sideVars>>

\* mobile.js:561: generateFieldGrid(fieldLayer.toGeoJSON().geometry, cellSize)
Call_mobile_generateFieldGrid(cellSize) ==
    /\ page = "mobile"
    /\ grid = <<>>
    /\ LET out == mobile_generateFieldGrid(PolygonGeoJSON(ring), cellSize)[1]
       IN  grid' = <<[geometry |-> mobile_gridGeometry(ring),
                      cells |-> out,
                      group |-> [k \in DOMAIN out |-> out[k].layer],
                      cellSize |-> cellSize]>>
    /\ UNCHANGED <<page, ring, applied>>
    /\ UNCHANGED <<mainVars, mobileVars, sideVars>>

CallNext ==
    \/ Call_main_generateFieldGrid
    \/ \E cellSize \in CellSizeArgs : Call_mobile_generateFieldGrid(cellSize)

SpecGrid == CallInit /\ [][CallNext]_vars

(***************************************************************************)
(* The telemetry hooks called on a shown grid (specification SpecTelemetry).*)
(* The page has loaded a stored Polygon field and shown its grid           *)
(* (main.js:855-873); from then on only the two public hooks run.          *)
(***************************************************************************)
TelemetryInit ==
    \E id \in FieldIds, r \in MainRings :
        LET boundary == PolygonGeoJSON(r)
            shown == showGrid(boundary, NoLayer, FALSE, <<>>, <<>>, {})
        IN  /\ fieldBoundary = boundary
            /\ gridLayer = shown.gridLayer
            /\ gridVisible = shown.gridVisible
            /\ gridCells = shown.gridCells
            /\ cellStyle = shown.cellStyle
            /\ mapGrid = shown.mapGrid
            /\ drawnItems = {r}
            /\ currentFieldId = id
            /\ storedFieldId = id
            /\ pending = [NoPending EXCEPT !.load = "done"]
            /\ handlersReady = TRUE
            /\ lastAlert = NoAlert
            /\ history = Computed(BoundaryChanged([on |-> NullGeoJSON, runs |-> 0]), boundary)
            /\ CallIdle

\* updateGridStylesFromMapping(mapping), main.js:701-719
Hook_updateGridStylesFromMapping(mapping) ==
    /\ ApplyMapping(mapping)
    /\ applied' = [hook |-> "update", mapping |-> mapping, cells |-> <<>>]
    /\ UNCHANGED <<page, ring, grid, mobileVars, sideVars>>

\* ingestGridDataFromRTDB(snapshot), main.js:722-742
Hook_ingestGridDataFromRTDB(snapshot) ==
    IF ~snapshot.hasCells
       THEN UNCHANGED vars
       ELSE /\ ApplyMapping(main_mappingOf(snapshot.cells))
            /\ applied' = [hook |-> "ingest", mapping |-> main_mappingOf(snapshot.cells),
                           cells |-> snapshot.cells]
            /\ UNCHANGED <<page, ring, grid, mobileVars, sideVars>>

\* the click handler of the k-th cell, main.js:681: highlightSelectedCell(cellPolygon)
Cell_Click(k) ==
    /\ k \in DOMAIN gridCells
    /\ cellStyle' = main_highlightSelectedCell(cellStyle, k)
    /\ applied' = [hook |-> "highlight", mapping |-> <<>>, cells |-> <<>>]
    /\ UNCHANGED <<fieldBoundary, gridLayer, gridVisible, gridCells, mapGrid, drawnItems,
                   currentFieldId, storedFieldId, pending, handlersReady, lastAlert, history>>
    /\ UNCHANGED <<page, ring, grid, mobileVars, sideVars>>

TelemetryNext ==
    \/ \E mapping \in Mappings : Hook_updateGridStylesFromMapping(mapping)
    \/ \E snapshot \in Snapshots : Hook_ingestGridDataFromRTDB(snapshot)
    \/ \E k \in DOMAIN gridCells : Cell_Click(k)

SpecTelemetry == TelemetryInit /\ [][TelemetryNext]_vars

\* the mobile page is opened; the desktop page and the calls are not under study
MobileSpecInit ==
    /\ MainInit
    /\ storedFieldId = NoField
    /\ page = "mobile" /\ ring = BoxRing /\ grid = <<>> /\ applied = NoHook
    /\ MobilePageInit
    /\ SideIdle

SpecMobile == MobileSpecInit /\ [][MobileNext]_vars

(***************************************************************************)
(* Either page in use (specification SpecPages): the desktop page as in    *)
(* Spec, or the mobile page as in SpecMobile for MaxSessions sign-ins, for *)
(* what is said of both.                                                   *)
(***************************************************************************)
MaxSessions == 1

PagesInit == Init \/ MobileSpecInit

PagesNext ==
    \/ page = "desktop" /\ Next
    \/ page = "mobile" /\ MobileNext /\ mobile_logins' <= MaxSessions

SpecPages == PagesInit /\ [][PagesNext]_vars

\* the mobile page is open; the fields, the grid and the requests are not under study
PagesIdle ==
    /\ MainInit
    /\ storedFieldId = NoField
    /\ page = "mobile" /\ ring = BoxRing /\ grid = <<>> /\ applied = NoHook
    /\ MobileIdle

(***************************************************************************)
(* Properties of generateFieldGrid (specification SpecGrid)                *)
(***************************************************************************)
CallDone == grid # <<>>
Geometry == grid[1].geometry
Cells == grid[1].cells

\* the candidate-grid position of a cell, read back from its south-west corner
RowOf(c) == (c.layer.lat1 - Geometry.bounds.min.lat) \div Geometry.gridSizeLat
ColOf(c) == (c.layer.lng1 - Geometry.bounds.min.lng) \div Geometry.gridSizeLng

\* the cells either script registers for ring r
CellsOn(p, r) ==
    IF p = "desktop" THEN main_generateFieldGrid(PolygonGeoJSON(r), <<>>).gridCells
    ELSE mobile_generateFieldGrid(PolygonGeoJSON(r), mobile_gridSizeMeters)[1]

\* the input rings of the page that have the bounding box of this call's ring
SameBoundsRings ==
    LET b == Geometry.bounds
        within == {q \in PositionsOf(page) : /\ b.min.lng <= q[1] /\ q[1] <= b.max.lng
                                             /\ b.min.lat <= q[2] /\ q[2] <= b.max.lat}
    IN  {r \in RingsOn(within) \cup {ring} : getBoundsFromCoordinates(r) = b}
CellsOfRing(r) == CellsOn(page, r)

\* C1: in both scripts every included cell at candidate position (row, col) carries
\* the identity row * colCount + col + 1, colCount being the column count of the
\* candidate grid (lngCells) and not the number of included cells.
C1_IdentityFormula ==
    CallDone =>
        \A k \in DOMAIN Cells :
            Cells[k].number = RowOf(Cells[k]) * Geometry.lngCells + ColOf(Cells[k]) + 1

\* C1 witness: a desktop grid of two rows and two columns with a cell left out
\* and an included cell in the second row.
C1_Witness ==
    /\ CallDone
    /\ page = "desktop"
    /\ Geometry.latCells = 2 /\ Geometry.lngCells = 2
    /\ Len(Cells) < 4
    /\ \E k \in DOMAIN Cells : RowOf(Cells[k]) = 1

\* C2: two rings with the same bounding box, gridded by the same script: a cell
\* included under both has the same identity in both grids.
C2_IdentityStable ==
    CallDone =>
        \A r2 \in SameBoundsRings :
            LET other == CellsOfRing(r2)
            IN  \A k \in DOMAIN Cells, k2 \in DOMAIN other :
                    Cells[k].layer = other[k2].layer => Cells[k].number = other[k2].number

\* C2 witness: another ring of the same bounding box includes a cell of this grid
\* at a different place in its list (it includes fewer cells before it).
C2_Witness ==
    /\ CallDone
    /\ \E r2 \in SameBoundsRings :
          LET other == CellsOfRing(r2)
          IN  \E k \in DOMAIN Cells, k2 \in DOMAIN other :
                 Cells[k].layer = other[k2].layer /\ k # k2

\* the candidate grid of the call: every (row, column) and its rectangle
Candidates == (0 .. Geometry.latCells - 1) \X (0 .. Geometry.lngCells - 1)
CandidateCell(i, j) ==
    [lat1 |-> Geometry.bounds.min.lat + i * Geometry.gridSizeLat,
     lng1 |-> Geometry.bounds.min.lng + j * Geometry.gridSizeLng,
     lat2 |-> Geometry.bounds.min.lat + (i + 1) * Geometry.gridSizeLat,
     lng2 |-> Geometry.bounds.min.lng + (j + 1) * Geometry.gridSizeLng]
Registered(i, j) == \E k \in DOMAIN Cells : Cells[k].layer = CandidateCell(i, j)

\* Ray casting, stated on its own: the edges of ring r (positions <<lng, lat>>, each
\* scaled by n) that a ray from (x, y) towards greater x crosses; an edge counts when
\* its lower end is at or below y, its upper end above y, and (x, y) is left of it.
CrossedEdges(x, y, r, n) ==
    {k \in 1 .. Len(r) - 1 :
        LET lo == IF r[k][2] <= r[k + 1][2] THEN r[k] ELSE r[k + 1]
            hi == IF r[k][2] <= r[k + 1][2] THEN r[k + 1] ELSE r[k]
        IN  /\ n * lo[2] <= y
            /\ y < n * hi[2]
            /\ (x - n * lo[1]) * (hi[2] - lo[2]) < (hi[1] - lo[1]) * (y - n * lo[2])}
InsideRing(x, y, r, n) == Cardinality(CrossedEdges(x, y, r, n)) % 2 = 1

\* the geometric centre of the cell, taken doubled against the ring doubled
CentreInside(c) == InsideRing(c.lng1 + c.lng2, c.lat1 + c.lat2, ring, 2)

\* one of the four corners of the cell is inside the ring
CornerInside(c) ==
    \E x \in {c.lng1, c.lng2}, y \in {c.lat1, c.lat2} : InsideRing(x, y, ring, 1)

\* the mean of the ring's positions (the closing one counted) lies in the cell,
\* the south and west sides of the cell counted in, the north and east sides not
MeanInCell(c) ==
    LET n == Len(ring)
        sumLng == SeqSum(ring, 1)
        sumLat == SeqSum(ring, 2)
    IN  /\ n * c.lng1 <= sumLng /\ sumLng < n * c.lng2
        /\ n * c.lat1 <= sumLat /\ sumLat < n * c.lat2

\* every registered cell is a cell of the candidate grid
OnlyCandidates ==
    \A k \in DOMAIN Cells : \E p \in Candidates : Cells[k].layer = CandidateCell(p[1], p[2])

LatSpan == Geometry.bounds.max.lat - Geometry.bounds.min.lat
LngSpan == Geometry.bounds.max.lng - Geometry.bounds.min.lng

\* C5 as stated: an axis in which the bounding box has no extent still gets a count
\* of at least 1, and a ring whose positions are all equal gets exactly one candidate
\* cell (one row, one column).
C5_DegenerateAxisCounted ==
    CallDone =>
        /\ LatSpan = 0 => Geometry.latCells >= 1
        /\ LngSpan = 0 => Geometry.lngCells >= 1
        /\ (\A k \in DOMAIN ring : ring[k] = ring[1]) =>
               Geometry.latCells = 1 /\ Geometry.lngCells = 1

\* C6 as stated: the rectangle 100 m wide and 50 m high with a cell size of 10 m gives
\* 5 rows and 10 columns, all 50 candidate cells included, identities 1..50 in order.
C6_RectangleScenario ==
    CallDone /\ ring = ScenarioRing /\ grid[1].cellSize = 10 =>
        /\ Geometry.latCells = 5
        /\ Geometry.lngCells = 10
        /\ Len(Cells) = 50
        /\ \A k \in DOMAIN Cells : Cells[k].number = k

\* identity(row, col) as the script of the page computes it for this candidate grid
Identity(i, j) ==
    IF page = "desktop" THEN main_cellNumber(i, j, Geometry.latCells, Geometry.lngCells)
    ELSE mobile_cellNumber(i, j, Geometry.latCells, Geometry.lngCells)

\* C7: within one candidate grid the identities strictly increase in row-major order:
\* identity(row, col) < identity(row, col + 1), and the last identity of a row is below
\* the first identity of the next row.
C7_RowMajorIncreasing ==
    CallDone =>
        \A p \in Candidates :
            /\ p[2] + 1 < Geometry.lngCells => Identity(p[1], p[2]) < Identity(p[1], p[2] + 1)
            /\ p[1] + 1 < Geometry.latCells =>
                  Identity(p[1], Geometry.lngCells - 1) < Identity(p[1] + 1, 0)

\* C7 witness: a desktop candidate grid with a next column and a next row.
C7_Witness ==
    /\ CallDone
    /\ page = "desktop"
    /\ Geometry.latCells >= 2
    /\ Geometry.lngCells >= 2

\* C8: the registered collection lists the included cells row ascending, then column
\* ascending, and the identities along it strictly increase.
C8_RowMajorOrder ==
    CallDone =>
        \A k \in 1 .. Len(Cells) - 1 :
            /\ \/ RowOf(Cells[k]) < RowOf(Cells[k + 1])
               \/ /\ RowOf(Cells[k]) = RowOf(Cells[k + 1])
                  /\ ColOf(Cells[k]) < ColOf(Cells[k + 1])
            /\ Cells[k].number < Cells[k + 1].number

\* C8 witness: a mobile grid of several rows and columns with a cell left out between
\* two registered ones.
C8_Witness ==
    /\ CallDone
    /\ page = "mobile"
    /\ \E k \in 1 .. Len(Cells) - 1 :
          /\ Cells[k + 1].number > Cells[k].number + 1
          /\ RowOf(Cells[k]) < RowOf(Cells[k + 1])
    /\ \E k \in 1 .. Len(Cells) - 1 : RowOf(Cells[k]) = RowOf(Cells[k + 1])

(***************************************************************************)
(* Properties of the main.js page (specification Spec)                     *)
(***************************************************************************)
\* what a first computation on boundary fb gives, on a page that has computed nothing yet
FreshGrid(fb) == main_generateFieldGrid(fb, <<>>)

\* C3: whatever the page went through before (earlier grids, the grid shown or hidden,
\* telemetry styles), the cells registered by the last grid computation are those a
\* first computation on the same boundary gives: same cells, corners and identities,
\* and the same layers in the group.
C3_Deterministic ==
    history.on # NullGeoJSON =>
        /\ gridCells = FreshGrid(history.on).gridCells
        /\ gridLayer # NoLayer => gridLayer = FreshGrid(history.on).returned

\* C3 witness: the grid was computed again for an unchanged boundary, after another
\* grid and telemetry styles had been on the page.
C3_Witness ==
    /\ history.runs = 2
    /\ gridVisible
    /\ Len(gridCells) > 0
    /\ history.on = fieldBoundary

\* the layers of the registered cells, in the order of gridCells
LayersOf(cells) == [k \in DOMAIN cells |-> cells[k].layer]

\* C9 as stated: between handlers gridCells is empty or the complete cell set of one
\* boundary, and whenever gridVisible is true the grid layer on the map holds exactly
\* the cells of gridCells.
C9_GridNeverPartial ==
    /\ \/ gridCells = <<>>
       \/ \E r \in MainRings : gridCells = FreshGrid(PolygonGeoJSON(r)).gridCells
    /\ gridVisible => mapGrid = {LayersOf(gridCells)}

\* C10 as stated: whenever the grid is visible its cells were computed from the current
\* fieldBoundary, by a computation made since fieldBoundary was last changed.
C10_GridOfCurrentBoundary ==
    gridVisible =>
        /\ history.on = fieldBoundary
        /\ history.runs >= 1

\* a step in which showGrid ran on a boundary that has no coordinates ring: the Draw
\* EDITED handler with the grid shown, the toggle button with the grid hidden, or the
\* answer to a save
RecomputeWithoutRing ==
    \/ gridVisible /\ \E old \in drawnItems, new \in MainRings : DrawEdited(old, new)
    \/ ~gridVisible /\ NoCoordinates(fieldBoundary) /\ fieldBoundary # NullGeoJSON /\ ToggleGrid
    \/ NoCoordinates(fieldBoundary) /\ SaveField_Response(TRUE)

\* C11 as stated: a recomputation for which generateFieldGrid returns null leaves the
\* displayed grid layer, gridCells and gridVisible as they were.
C11_FailedRecomputeRetains ==
    [][RecomputeWithoutRing =>
          /\ gridLayer' = gridLayer
          /\ mapGrid' = mapGrid
          /\ gridCells' = gridCells
          /\ gridVisible' = gridVisible]_vars

\* C13 as stated (main.js): after any polygon-drawn events at most one boundary layer
\* is shown on the map, it is the one fieldBoundary holds, and at most one grid layer
\* is on the map.
C13_OneActiveBoundary ==
    /\ Cardinality(drawnItems) <= 1
    /\ \A r \in drawnItems :
          fieldBoundary \in {PolygonGeoJSON(r), FeatureGeoJSON(r), EmptyPolygon}
    /\ Cardinality(mapGrid) <= 1

(***************************************************************************)
(* Properties of the telemetry hooks (specification SpecTelemetry)         *)
(***************************************************************************)
\* the style every cell classified with this status is left with
\* the last step was a call of one of the two telemetry hooks
HookApplied == applied.hook \in {"update", "ingest"}

ClassifiedStyle(status) == main_styleFor(main_defaultStyle, 1, (1 :> status))

\* the slate outline without fill
NoDataPresentation(style) == style.fillOpacity = "0.0" /\ style.color = "#94a3b8"

\* the cells of the grid that have the number n
CellsNumbered(n) == {k \in DOMAIN gridCells : gridCells[k].number = n}

\* C14: after a mapping (or the snapshot that yields it) has been applied, applying the
\* same mapping once more leaves every cell with the styling it already has.
C14_SameMappingTwice ==
    HookApplied =>
        main_updateGridStyles(gridCells, cellStyle, applied.mapping).cellStyle = cellStyle

C14_Witness ==
    /\ applied.hook = "ingest"
    /\ \E k \in CellsNumbered(1) : cellStyle[k] = ClassifiedStyle("critical")

\* C15: a hook call changes nothing but the styles of the cell layers: the members of
\* gridCells, their numbers and geometry, gridLayer, gridVisible, fieldBoundary and the
\* layers on the map stay as they were, also for a mapping that names a cell the grid
\* does not have.
C15_OnlyStylesChange ==
    [][/\ gridCells' = gridCells
       /\ gridLayer' = gridLayer
       /\ gridVisible' = gridVisible
       /\ fieldBoundary' = fieldBoundary
       /\ mapGrid' = mapGrid
       /\ drawnItems' = drawnItems]_vars

C15_Witness ==
    /\ applied.hook = "update"
    /\ 99 \in DOMAIN applied.mapping
    /\ CellsNumbered(99) = {}
    /\ gridVisible
    /\ mapGrid # {}
    /\ \E k \in CellsNumbered(1) : cellStyle[k] = ClassifiedStyle("warn")

\* C16: after a hook call every cell whose number has no entry in the mapping has the
\* slate outline without fill, which is not the style of a cell classified ok.
C16_AbsentIsNoData ==
    HookApplied =>
        \A k \in DOMAIN gridCells :
            gridCells[k].number \notin DOMAIN applied.mapping =>
                /\ NoDataPresentation(cellStyle[k])
                /\ cellStyle[k] # ClassifiedStyle("ok")

\* cell 1 was classified ok by an earlier call and has no entry in the last one: it
\* keeps the green fillColor but has the slate outline without fill
C16_Witness ==
    /\ HookApplied
    /\ 1 \notin DOMAIN applied.mapping
    /\ \E k \in CellsNumbered(1) :
          /\ cellStyle[k].fillColor = "#22c55e"
          /\ NoDataPresentation(cellStyle[k])

\* C17 as stated: after ingestGridDataFromRTDB every cell whose moisture reading is
\* missing or not a number has the 'no data' presentation, not the style of a cell
\* classified ok, warn or critical.
C17_NonNumericIsNoData ==
    applied.hook = "ingest" =>
        \A k \in DOMAIN gridCells :
            LET number == gridCells[k].number
            IN  (number \in DOMAIN applied.cells /\ applied.cells[number].kind # "number") =>
                    /\ NoDataPresentation(cellStyle[k])
                    /\ \A status \in Statuses : cellStyle[k] # ClassifiedStyle(status)

\* the class the thresholds give a numeric reading m
ClassOf(m) == IF m < 30 THEN "critical" ELSE IF m < 40 THEN "warn" ELSE "ok"

\* C26: after ingestGridDataFromRTDB every cell with a numeric reading m has the style
\* of critical exactly when m < 30, of warn exactly when 30 <= m < 40 and of ok exactly
\* when m >= 40, whatever the readings of the other cells are.
C26_MoistureThresholds ==
    applied.hook = "ingest" =>
        \A key \in DOMAIN applied.cells :
            applied.cells[key].kind = "number" =>
                /\ applied.mapping[key] = ClassOf(applied.cells[key].value)
                /\ \A k \in CellsNumbered(key) :
                      \A status \in Statuses :
                          cellStyle[k] = ClassifiedStyle(status)
                              <=> status = ClassOf(applied.cells[key].value)

\* C26 witness: cell 1 read 30 and is shown as warn, while the other entry of the same
\* snapshot read 29 and is classified critical
C26_Witness ==
    /\ applied.hook = "ingest"
    /\ DOMAIN applied.cells = TelemetryIds
    /\ applied.cells[1] = [kind |-> "number", value |-> 30]
    /\ applied.cells[99] = [kind |-> "number", value |-> 29]
    /\ applied.mapping[99] = "critical"
    /\ \E k \in CellsNumbered(1) : cellStyle[k] = ClassifiedStyle("warn")

(***************************************************************************)
(* Cell size                                                               *)
(***************************************************************************)
\* C20 as stated: the cell size is the caller's argument: a call with cell size s yields
\* cells of s metres.
C20_CellSizeIsArgument ==
    (CallDone /\ page = "mobile") =>
        Geometry.gridSizeLat = grid[1].cellSize * latDegreePerMeter

(***************************************************************************)
(* Properties of the mobile page (specification SpecMobile)                *)
(***************************************************************************)
\* every callback has run
TimersSettled == mobile_timers = <<>>

\* C12 as stated: once the callbacks of overlapping displayGriddedField calls have run,
\* the gridded view shows the ring of the most recent call, made by that call's own
\* callback: the results of older calls are discarded.
C12_LatestRequestShown ==
    (TimersSettled /\ mobile_requested # NoLayer /\ mobile_requested[1] # NoLayer) =>
        /\ mobile_griddedMap # NoLayer
        /\ mobile_griddedMap[1].field = mobile_requested[1]
        /\ mobile_griddedMap[1].latest

\* the layers the page shows: the drawn layer, the polygons on the main map and the
\* field of the gridded map
ShownLayers ==
    LayersIn(mobile_drawnLayer) \cup mobile_mapPolygons
    \cup (IF mobile_griddedMap = NoLayer THEN {} ELSE LayersIn(mobile_griddedMap[1].field))

\* loading has settled for the signed-in user
Settled ==
    /\ mobile_currentUser # NoUser
    /\ mobile_inFlight = {}
    /\ TimersSettled

\* C18 as stated: once loading has settled for the signed-in user U, currentFieldId is
\* empty or the id of a stored field whose userId is U, and every layer shown depicts
\* a field of U.
C18_OnlyOwnField ==
    Settled =>
        /\ \/ mobile_currentFieldId = NoField
           \/ \E f \in mobile_server :
                 f.fieldId = mobile_currentFieldId /\ f.userId = mobile_currentUser
        /\ \A layer \in ShownLayers : layer.owner = mobile_currentUser

\* C19: no request is in flight without a token; and when the last step saw a request
\* answered 401 the user is signed out and the caller took its failure path:
\* loadFieldList offers the mock options, loadUserSavedField has cleared the page.
C19_RequestsAuthenticated ==
    /\ \A call \in mobile_inFlight : call.token # NoUser
    /\ mobile_last401 # "none" =>
          /\ mobile_currentUser = NoUser
          /\ mobile_authToken = NoUser
          /\ mobile_last401 = "loadFieldList" => mobile_fieldSelect = MockFieldIds
          /\ mobile_last401 = "loadUserSavedField" =>
                /\ mobile_drawnLayer = NoLayer
                /\ mobile_currentFieldId = NoField
                /\ mobile_griddedMap = NoLayer

\* a save was answered 401: the user is signed out, nothing was adopted from the
\* answer and no request followed
C19_Witness ==
    /\ mobile_last401 = "saveDrawnField"
    /\ mobile_currentUser = NoUser
    /\ mobile_drawnLayer # NoLayer
    /\ mobile_saveEnabled
    /\ mobile_inFlight = {}

(***************************************************************************)
(* Properties of isPointInPolygon (specification SpecGrid): the test of    *)
(* the page applied to the ring of the call, for points around the ring.   *)
(***************************************************************************)
ReverseRing(r) == [k \in DOMAIN r |-> r[Len(r) + 1 - k]]

\* the points <<lng, lat>> of the half-spaced lattice on and one step around the
\* bounding box of the ring: lattice positions, cell corners and cell centres
TestStep == IF page = "desktop" THEN 1 ELSE (mobile_gridSizeMeters * latDegreePerMeter) \div 2
TestPoints ==
    LET b == getBoundsFromCoordinates(ring)
        lngs == {b.min.lng + (k - 1) * TestStep :
                    k \in 0..((b.max.lng - b.min.lng) \div TestStep + 2)}
        lats == {b.min.lat + (k - 1) * TestStep :
                    k \in 0..((b.max.lat - b.min.lat) \div TestStep + 2)}
    IN  lngs \X lats

\* isPointInPolygon of the page for the point <<lng, lat>> and the ring r, each script
\* given its own order of the two coordinates
InsideOnPage(point, r) ==
    IF page = "desktop" THEN main_isPointInPolygon(point, r)
    ELSE mobile_isPointInPolygon(<<point[2], point[1]>>, SwapPositions(r))

\* the indices i whose edge (j -> i), j the index before i and the last index for the
\* first, passes the test of the page
TogglingEdges(point, r) ==
    {i \in DOMAIN r :
        LET j == IF i = 1 THEN Len(r) ELSE i - 1
        IN  IF page = "desktop" THEN main_edgeCrosses(point, r[i], r[j])
            ELSE mobile_edgeCrosses(<<point[2], point[1]>>,
                                    <<r[i][2], r[i][1]>>, <<r[j][2], r[j][1]>>)}

\* the edge between positions a and b has one end strictly below and the other
\* strictly above the latitude of the point
StrictlyStraddles(point, a, b) ==
    \/ a[2] < point[2] /\ point[2] < b[2]
    \/ b[2] < point[2] /\ point[2] < a[2]

\* the edge, which straddles, meets the latitude of the point east of the point
RightOfPoint(point, a, b) ==
    LET lo == IF a[2] < b[2] THEN a ELSE b
        hi == IF a[2] < b[2] THEN b ELSE a
    IN  (point[1] - lo[1]) * (hi[2] - lo[2]) < (hi[1] - lo[1]) * (point[2] - lo[2])

\* C21: for every point and the ring of the call, each edge that strictly straddles the
\* latitude of the point and lies to its right toggles once; the point is inside exactly
\* when the number of toggling edges is odd; and the result is the same for the ring
\* listed in reversed order.
C21_RayCasting ==
    CallDone =>
        \A point \in TestPoints :
            /\ \A i \in DOMAIN ring :
                  LET j == IF i = 1 THEN Len(ring) ELSE i - 1
                  IN  (StrictlyStraddles(point, ring[i], ring[j])
                       /\ RightOfPoint(point, ring[i], ring[j]))
                          => i \in TogglingEdges(point, ring)
            /\ InsideOnPage(point, ring) <=> Cardinality(TogglingEdges(point, ring)) % 2 = 1
            /\ InsideOnPage(point, ring) <=> InsideOnPage(point, ReverseRing(ring))

\* C21 witness: a triangle with a point inside it whose ray passes through a vertex
\* latitude, one edge toggling, the reversed ring being a different sequence
C21_Witness ==
    /\ CallDone
    /\ ReverseRing(ring) # ring
    /\ \E point \in TestPoints :
          /\ InsideOnPage(point, ring)
          /\ InsideOnPage(point, ReverseRing(ring))
          /\ Cardinality(TogglingEdges(point, ring)) = 1
          /\ \E k \in DOMAIN ring : ring[k][2] = point[2]

\* the cell at candidate position (row, col) is among the cells of the call
IncludedAt(row, col) == \E k \in DOMAIN Cells : RowOf(Cells[k]) = row /\ ColOf(Cells[k]) = col

\* the rectangle of cell c lies within the bounding box of the ring
WithinBounds(c) ==
    /\ Geometry.bounds.min.lat <= c.layer.lat1 /\ c.layer.lat2 <= Geometry.bounds.max.lat
    /\ Geometry.bounds.min.lng <= c.layer.lng1 /\ c.layer.lng2 <= Geometry.bounds.max.lng

\* C22: for the unit square cut into quarters along each axis, the candidate grid has
\* four rows and four columns, the four central cells (rows and columns 1 and 2) are
\* included, and no included cell lies outside the square.
C22_UnitSquare ==
    (CallDone /\ ring = UnitSquareRing(page)) =>
        /\ Geometry.latCells = 4 /\ Geometry.lngCells = 4
        /\ \A row \in {1, 2} : \A col \in {1, 2} : IncludedAt(row, col)
        /\ \A k \in DOMAIN Cells : WithinBounds(Cells[k])

\* C22 witness: the grid of the unit square on the desktop page, a central cell and a
\* corner cell registered
C22_Witness ==
    /\ CallDone
    /\ page = "desktop"
    /\ ring = UnitSquareRing(page)
    /\ IncludedAt(1, 1)
    /\ IncludedAt(0, 0)
    /\ Len(Cells) <= 16

\* C30: within the grid of one call the numbers of the included cells are pairwise
\* distinct and each lies in 1..latCells * lngCells, so an identity names at most one
\* cell.
C30_IdentitiesDistinct ==
    CallDone =>
        /\ \A k, j \in DOMAIN Cells : k # j => Cells[k].number # Cells[j].number
        /\ \A k \in DOMAIN Cells : Cells[k].number \in 1..(Geometry.latCells * Geometry.lngCells)
        /\ \A n \in 1..(Geometry.latCells * Geometry.lngCells) :
              Cardinality({k \in DOMAIN Cells : Cells[k].number = n}) <= 1

\* C30 witness: a desktop grid of several rows with a candidate left out before the
\* last cell, whose number is therefore larger than the count of included cells
C30_Witness ==
    /\ CallDone
    /\ page = "desktop"
    /\ Geometry.latCells >= 2
    /\ Len(Cells) >= 2
    /\ Cells[Len(Cells)].number > Len(Cells)

(***************************************************************************)
(* Properties of saving and restoring (specification Spec)                 *)
(***************************************************************************)
\* fieldBoundary is what a Draw CREATED or EDITED handler stored for a drawn polygon
JustDrawn == \E r \in drawnItems : fieldBoundary = FeatureGeoJSON(r)

\* C23 as stated: when saveField receives a successful response for a boundary the user
\* has just drawn, the grid becomes visible with a grid layer of that boundary on the
\* map, currentFieldId is the saved id, and the alert reports success, never failure.
C23_SavedFieldShowsGrid ==
    [][(JustDrawn /\ SaveField_Response(TRUE)) =>
          /\ gridVisible'
          /\ gridLayer' # NoLayer
          /\ mapGrid' = {gridLayer'[1]}
          /\ history'.on = fieldBoundary
          /\ currentFieldId' = pending.save
          /\ lastAlert' = "Field saved successfully"]_vars

\* a step in which saveField of main.js gets a non-OK response or a network error
SaveField_Failed == page = "desktop" /\ SaveField_Response(FALSE)

\* a step in which saveDrawnField of mobile.js gets a non-OK response (401 included)
\* or a network error
SaveDrawnField_Failed ==
    /\ page = "mobile"
    /\ \E call \in mobile_inFlight : \E answer \in ServerAnswers(call) :
          answer.status # "ok" /\ Response_saveDrawnField(call, answer)

\* C24: a failed save leaves currentFieldId, the persisted field id, the drawn boundary
\* and the grid state as they were, on either page, and the alert says the save failed.
C24_FailedSaveChangesNothing ==
    [][/\ SaveField_Failed =>
             /\ UNCHANGED <<currentFieldId, storedFieldId, fieldBoundary, drawnItems>>
             /\ UNCHANGED <<gridLayer, gridVisible, gridCells, cellStyle, mapGrid>>
             /\ lastAlert' = "Failed to save field"
       /\ SaveDrawnField_Failed =>
             /\ UNCHANGED <<mobile_currentFieldId, mobile_server, mobile_drawnLayer,
                            mobile_mapPolygons>>
             /\ UNCHANGED <<mobile_griddedMap, mobile_shownSection, mobile_timers>>
             /\ mobile_lastAlert' \in {"Failed to save field", "Network error saving field"}
      ]_vars

\* C24 witness: on the mobile page a save was answered with an error while the drawn
\* polygon is on the map; it is still there, the save button is still enabled
C24_Witness ==
    /\ page = "mobile"
    /\ mobile_lastAlert = "Failed to save field"
    /\ mobile_drawnLayer # NoLayer
    /\ mobile_saveEnabled
    /\ mobile_currentUser # NoUser

\* after a step: the field id is restored with its boundary and the grid of that boundary
RestoredAfter(id) ==
    /\ id # NoField
    /\ currentFieldId' = id
    /\ fieldBoundary' # NullGeoJSON
    /\ gridVisible'
    /\ gridLayer' # NoLayer
    /\ mapGrid' = {gridLayer'[1]}
    /\ history'.on = fieldBoundary'

\* after a step: nothing is restored
LeftNullAfter == currentFieldId' = NoField /\ fieldBoundary' = NullGeoJSON

\* C25 as stated: a successful save leaves the persisted id equal to currentFieldId,
\* clearMap leaves both absent, and a reload through loadFieldData either restores the
\* field of the persisted id with its grid or leaves currentFieldId and fieldBoundary
\* null.
C25_PersistedIdRestored ==
    [][/\ SaveField_Response(TRUE) =>
             (storedFieldId' = currentFieldId' /\ currentFieldId' # NoField)
       /\ ClearMap => (storedFieldId' = NoField /\ currentFieldId' = NoField)
       /\ (pending.load = "locating" /\ LoadFieldData_Start /\ storedFieldId = NoField) =>
             LeftNullAfter
       /\ (\E resp \in LoadResponses : LoadFieldData_Response(resp)) =>
             (RestoredAfter(pending.id) \/ LeftNullAfter)
      ]_vars

(***************************************************************************)
(* Properties of the grid toggle and of the registered cells               *)
(* (specification Spec)                                                    *)
(***************************************************************************)
\* gridLayer holds a layer and that layer is on the map
GridLayerOnMap == gridLayer # NoLayer /\ gridLayer[1] \in mapGrid

\* C27 as stated: toggleGrid changes nothing of the grid when there is no field
\* boundary; with a boundary each call flips gridVisible; and in every state gridVisible
\* is true exactly when gridLayer is non-null and on the map.
C27_ToggleFlipsVisibility ==
    [][/\ (fieldBoundary = NullGeoJSON /\ ToggleGrid) =>
             UNCHANGED <<fieldBoundary, gridLayer, gridVisible, gridCells, cellStyle, mapGrid>>
       /\ (fieldBoundary # NullGeoJSON /\ ToggleGrid) => gridVisible' = ~gridVisible
       /\ gridVisible <=> GridLayerOnMap
       /\ gridVisible' <=> GridLayerOnMap'
      ]_vars

\* C28 as stated: gridCells is non-empty only while a grid is displayed; after hideGrid
\* or clearMap it holds no cells.
C28_CellsOnlyWhileDisplayed ==
    [][/\ gridCells' # <<>> => (gridVisible' /\ GridLayerOnMap')
       /\ (ClearMap \/ (gridVisible /\ ToggleGrid)) => gridCells' = <<>>
      ]_vars

(***************************************************************************)
(* Properties of the styles after a hook call (specification               *)
(* SpecTelemetry)                                                          *)
(***************************************************************************)
\* C29 as stated: after a hook call with mapping M the style of every cell is the one M
\* alone gives a cell that never had data or a highlight, whatever was applied before.
C29_StyleFromMappingAlone ==
    HookApplied =>
        \A k \in DOMAIN gridCells :
            cellStyle[k] = main_styleFor(main_defaultStyle, gridCells[k].number, applied.mapping)

(***************************************************************************)
(* Sign-in on the mobile page, one step per await (specification SpecAuth).*)
(* An async function runs to its next await; what it awaits (the Firebase  *)
(* SDK, the initial data) completes later, in any order.  The SDK delivers *)
(* each change of the signed-in account to the listener of mobile.js:1094  *)
(* in the order the changes happened.                                      *)
(***************************************************************************)
MaxClicks == 2           \* clicks on the sign-in, sign-up and logout buttons
\* the sign-in is studied for one account; accounts are told apart in SpecMobile
Accounts == {1}

\* a suspended async function: fn is at the await named at, for account user;
\* id is the click that started it (0 for the opening of the page)
Task(fn, at, user, id) == [fn |-> fn, at |-> at, user |-> user, id |-> id]

\* EventTarget.addEventListener: a listener that is already attached is not attached
\* again, and a new closure is never the listener already attached
dom_addEventListener(handlers, sameFunction) ==
    IF sameFunction /\ handlers >= 1 THEN handlers ELSE handlers + 1

\* setupEventListeners, mobile.js:1511-1653
mobile_setupEventListeners(handlers) ==
    [c \in Controls |-> dom_addEventListener(handlers[c], c \in NamedControls)]

\* the catch block of the listener with isAuthenticated left as it is
mobile_tokenError_userOnly ==
    [currentUser |-> NoUser, isAuthenticated |-> TRUE, authToken |-> NoUser]

\* the catch block of the listener, mobile.js:1105-1111
mobile_tokenError ==
    [currentUser |-> NoUser, isAuthenticated |-> FALSE, authToken |-> NoUser]

\* the part of the page state that the sign-in functions act on
Session ==
    [currentUser |-> mobile_currentUser, isAuthenticated |-> mobile_isAuthenticated,
     authToken |-> mobile_authToken, currentScreen |-> mobile_currentScreen,
     authUser |-> auth_currentUser, notifications |-> auth_notifications,
     suspended |-> mobile_suspended, handlers |-> mobile_handlers]

\* a step of the sign-in functions that leaves s; click is what a click started
AuthStep(s, click) ==
    /\ mobile_currentUser' = s.currentUser
    /\ mobile_isAuthenticated' = s.isAuthenticated
    /\ mobile_authToken' = s.authToken
    /\ mobile_currentScreen' = s.currentScreen
    /\ auth_currentUser' = s.authUser
    /\ auth_notifications' = s.notifications
    /\ mobile_suspended' = s.suspended
    /\ mobile_handlers' = s.handlers
    /\ mobile_started' = click
    /\ UNCHANGED <<mobile_drawnLayer, mobile_mapPolygons, mobile_currentFieldId,
                   mobile_griddedMap, mobile_shownSection, mobile_saveEnabled,
                   mobile_fieldSelect, mobile_timers, mobile_inFlight, mobile_server,
                   mobile_requested, mobile_logins, mobile_last401, mobile_lastAlert>>
    /\ UNCHANGED <<mainVars, callVars, backgroundVars, closeVars>>

\* the SDK changes the signed-in account and queues the change for the listener
auth_changed(s, user, id) ==
    IF s.authUser = user THEN s
    ELSE [s EXCEPT !.authUser = user,
                   !.notifications = Append(@, [user |-> user, id |-> id])]

\* the page is opened, mobile.js:176-211: initializeApp has registered both listeners
\* and waits for the first auth state, which is a stored session or none
AuthInit ==
    /\ PagesIdle
    /\ BackgroundIdle
    /\ CloseIdle
    /\ mobile_currentScreen = "splash"
    /\ auth_currentUser \in Accounts \cup {NoUser}
    /\ auth_notifications = <<[user |-> auth_currentUser, id |-> 0]>>
    /\ mobile_suspended = {Task("initializeApp", "firstAuthState", NoUser, 0)}
    /\ mobile_handlers = NoControls
    /\ mobile_started = NoClick
    /\ mobile_clicks = 0

\* the listener of checkAuthenticationStatus up to its first await, mobile.js:1094-1103
\* and 1132-1143
mobile_onAuthStateChanged(s, n) ==
    IF n.user # NoUser
       THEN [s EXCEPT !.currentUser = n.user,
                      !.isAuthenticated = TRUE,
                      !.suspended = @ \cup {Task("onAuthStateChanged", "getIdToken",
                                                 n.user, n.id)}]
       ELSE [s EXCEPT !.currentUser = NoUser,
                      !.isAuthenticated = FALSE,
                      !.authToken = NoUser,
                      !.currentScreen = "login"]

\* the one-shot listener of initializeApp and what follows its promise,
\* mobile.js:197-229
mobile_initializeApp_resume(s, n) ==
    LET waiting == Task("initializeApp", "firstAuthState", NoUser, 0)
        shown == IF n.user = NoUser /\ s.currentScreen # "home"
                    THEN [s EXCEPT !.currentScreen = "login"] ELSE s
        next == IF s.isAuthenticated /\ s.currentUser # NoUser
                   THEN "initializeMainApp" ELSE "splashTimer"
    IN  IF waiting \notin s.suspended THEN s
        ELSE [shown EXCEPT !.suspended = (@ \ {waiting})
                              \cup {Task("initializeApp", next, n.user, 0)}]

\* the SDK delivers the oldest undelivered auth state to the listeners, in the order
\* they were registered
AuthState_Delivered ==
    /\ auth_notifications # <<>>
    /\ LET n == Head(auth_notifications)
           s == [Session EXCEPT !.notifications = Tail(@)]
       IN  AuthStep(mobile_initializeApp_resume(mobile_onAuthStateChanged(s, n), n),
                    NoClick)
    /\ UNCHANGED mobile_clicks

\* the click on login-continue-btn: handleLogin up to signInWithEmailAndPassword,
\* mobile.js:1279-1290
HandleLogin_Click(u) ==
    /\ mobile_currentScreen = "login"
    /\ mobile_clicks < MaxClicks
    /\ mobile_clicks' = mobile_clicks + 1
    /\ AuthStep([Session EXCEPT !.suspended = @ \cup {Task("handleLogin", "signIn", u,
                                                          mobile_clicks + 1)}],
                NoClick)

\* the click on signup-continue-btn: handleSignup up to
\* createUserWithEmailAndPassword, mobile.js:1335-1353
HandleSignup_Click(u) ==
    /\ mobile_currentScreen = "login"
    /\ mobile_clicks < MaxClicks
    /\ mobile_clicks' = mobile_clicks + 1
    /\ AuthStep([Session EXCEPT !.suspended = @ \cup {Task("handleSignup", "signIn", u,
                                                          mobile_clicks + 1)}],
                NoClick)

\* the sign-in or the account creation succeeds: the function goes on to getIdToken
\* (mobile.js:1291-1294) or to updateProfile (mobile.js:1354-1358)
SignIn_Resolved(t) ==
    /\ t \in mobile_suspended
    /\ t.at = "signIn"
    /\ LET next == IF t.fn = "handleLogin" THEN "getIdToken" ELSE "updateProfile"
           s == [Session EXCEPT !.suspended = (@ \ {t}) \cup {[t EXCEPT !.at = next]}]
       IN  AuthStep(auth_changed(s, t.user, t.id), NoClick)
    /\ UNCHANGED mobile_clicks

\* an awaited call of the SDK fails in handleLogin or handleSignup: the catch block
\* shows an alert, mobile.js:1310-1330 and 1377-1410
Await_Rejected(t) ==
    /\ t \in mobile_suspended
    /\ t.fn \in {"handleLogin", "handleSignup"}
    /\ t.at \in {"signIn", "updateProfile", "getIdToken"}
    /\ AuthStep([Session EXCEPT !.suspended = @ \ {t}], NoClick)
    /\ UNCHANGED mobile_clicks

\* updateProfile succeeds, mobile.js:1356-1361
UpdateProfile_Resolved(t) ==
    /\ t \in mobile_suspended
    /\ t.at = "updateProfile"
    /\ AuthStep([Session EXCEPT !.suspended = (@ \ {t})
                                   \cup {[t EXCEPT !.at = "getIdToken"]}],
                NoClick)
    /\ UNCHANGED mobile_clicks

\* getIdToken succeeds: the token is stored, mobile.js:1103, 1294, 1361; the listener
\* goes on only for an authenticated session, mobile.js:1113-1130
GetIdToken_Resolved(t) ==
    /\ t \in mobile_suspended
    /\ t.at = "getIdToken"
    /\ LET stored == [Session EXCEPT !.authToken = t.user]
           goesOn == t.fn # "onAuthStateChanged"
                     \/ (stored.isAuthenticated /\ stored.currentUser # NoUser)
       IN  AuthStep(IF goesOn
                       THEN [stored EXCEPT !.suspended =
                                (@ \ {t}) \cup {[t EXCEPT !.at = "initializeMainApp"]}]
                       ELSE [stored EXCEPT !.suspended = @ \ {t},
                                           !.currentScreen = "login"],
                    NoClick)
    /\ UNCHANGED mobile_clicks

\* getIdToken fails in the listener, mobile.js:1105-1111 and 1127-1130
GetIdToken_Rejected(t) ==
    /\ t \in mobile_suspended
    /\ t.fn = "onAuthStateChanged"
    /\ t.at = "getIdToken"
    /\ AuthStep([Session EXCEPT !.currentUser = mobile_tokenError.currentUser,
                                !.isAuthenticated = mobile_tokenError.isAuthenticated,
                                !.authToken = mobile_tokenError.authToken,
                                !.currentScreen = "login",
                                !.suspended = @ \ {t}],
                NoClick)
    /\ UNCHANGED mobile_clicks

\* initializeMainApp returns, mobile.js:235-241: the initial data has loaded and
\* setupEventListeners has run; the listener goes on to loadUserSavedField
\* (mobile.js:1122), the others show the home screen (mobile.js:220, 1305, 1372)
InitializeMainApp_Returned(t) ==
    /\ t \in mobile_suspended
    /\ t.at = "initializeMainApp"
    /\ LET set == [Session EXCEPT !.handlers = mobile_setupEventListeners(@)]
       IN  AuthStep(IF t.fn = "onAuthStateChanged"
                       THEN [set EXCEPT !.suspended =
                                (@ \ {t}) \cup {[t EXCEPT !.at = "loadUserSavedField"]}]
                       ELSE [set EXCEPT !.suspended = @ \ {t},
                                        !.currentScreen = "home"],
                    NoClick)
    /\ UNCHANGED mobile_clicks

\* loadUserSavedField returns to the listener, mobile.js:1122-1125
LoadUserSavedField_Returned(t) ==
    /\ t \in mobile_suspended
    /\ t.at = "loadUserSavedField"
    /\ AuthStep([Session EXCEPT !.suspended = @ \ {t}, !.currentScreen = "home"],
                NoClick)
    /\ UNCHANGED mobile_clicks

\* the 2 s timer of initializeApp, mobile.js:225-227
Splash_Timer(t) ==
    /\ t \in mobile_suspended
    /\ t.at = "splashTimer"
    /\ AuthStep([Session EXCEPT !.suspended = @ \ {t}, !.currentScreen = "login"],
                NoClick)
    /\ UNCHANGED mobile_clicks

\* the click on logout-btn: logout up to auth.signOut, mobile.js:1482-1485
Logout_Click ==
    /\ mobile_currentScreen = "home"
    /\ mobile_handlers["logout-btn"] >= 1
    /\ mobile_clicks < MaxClicks
    /\ mobile_clicks' = mobile_clicks + 1
    /\ AuthStep([Session EXCEPT !.suspended = @ \cup {Task("logout", "signOut", NoUser,
                                                          mobile_clicks + 1)}],
                NoClick)

\* signOut succeeds and logout goes on, mobile.js:1487-1500
SignOut_Resolved(t) ==
    /\ t \in mobile_suspended
    /\ t.at = "signOut"
    /\ LET s == [Session EXCEPT !.currentUser = NoUser,
                                !.authToken = NoUser,
                                !.isAuthenticated = FALSE,
                                !.currentScreen = "login",
                                !.suspended = @ \ {t}]
       IN  AuthStep(auth_changed(s, NoUser, t.id), NoClick)
    /\ UNCHANGED mobile_clicks

\* a click on a control of the home screen runs every handler attached to it: each
\* handler of save-field-btn, delete-field-btn and field-select sends one request
\* (mobile.js:2018, 496, 1525), each handler of start-deployment-btn makes one
\* deployment map (mobile.js:1625)
Control_Click(c) ==
    /\ c \in Controls \ {"logout-btn"}
    /\ mobile_currentScreen = "home"
    /\ mobile_started = NoClick
    /\ AuthStep(Session,
                [control |-> c,
                 requests |-> IF c = "start-deployment-btn" THEN 0 ELSE mobile_handlers[c],
                 maps |-> IF c = "start-deployment-btn" THEN mobile_handlers[c] ELSE 0])
    /\ UNCHANGED mobile_clicks

AuthNext ==
    \/ AuthState_Delivered
    \/ \E u \in Accounts : HandleLogin_Click(u)
    \/ \E u \in Accounts : HandleSignup_Click(u)
    \/ \E t \in mobile_suspended : SignIn_Resolved(t)
    \/ \E t \in mobile_suspended : Await_Rejected(t)
    \/ \E t \in mobile_suspended : UpdateProfile_Resolved(t)
    \/ \E t \in mobile_suspended : GetIdToken_Resolved(t)
    \/ \E t \in mobile_suspended : GetIdToken_Rejected(t)
    \/ \E t \in mobile_suspended : InitializeMainApp_Returned(t)
    \/ \E t \in mobile_suspended : LoadUserSavedField_Returned(t)
    \/ \E t \in mobile_suspended : Splash_Timer(t)
    \/ Logout_Click
    \/ \E t \in mobile_suspended : SignOut_Resolved(t)
    \/ \E c \in Controls : Control_Click(c)

SpecAuth == AuthInit /\ [][AuthNext]_vars

(***************************************************************************)
(* Properties of the sign-in (specification SpecAuth)                      *)
(***************************************************************************)
\* C31: between any two steps of the listener, handleLogin, handleSignup and logout,
\* isAuthenticated is true exactly when currentUser is not null.
C31_AuthenticatedIffUser == mobile_isAuthenticated <=> mobile_currentUser # NoUser

\* the session was ended while a call of the listener was still waiting for its token
C31_Witness ==
    /\ ~mobile_isAuthenticated
    /\ mobile_currentUser = NoUser
    /\ \E t \in mobile_suspended : t.fn = "onAuthStateChanged" /\ t.at = "getIdToken"

\* nothing is waiting: no async function is suspended and every auth state is delivered
AllCallbacksRun == mobile_suspended = {} /\ auth_notifications = <<>>

\* C32: once the session is unauthenticated and every pending callback has run,
\* authToken is null.
C32_NoTokenWhenSignedOut ==
    (~mobile_isAuthenticated /\ AllCallbacksRun) => mobile_authToken = NoUser

\* C33: every control has at most one handler, and a click on Save Field or on
\* Delete starts exactly one request.
C33_HandlersRegisteredOnce ==
    /\ \A c \in Controls : mobile_handlers[c] <= 1
    /\ mobile_started.control \in {"save-field-btn", "delete-field-btn"} =>
          mobile_started.requests = 1

(***************************************************************************)
(* The geolocation watch of the deployment screen and the auto-refresh     *)
(* interval timers of both pages (specification SpecBackground).           *)
(* watchPosition and setInterval return a fresh positive id; clearWatch    *)
(* and clearInterval end the watch or timer of the id they are given.      *)
(***************************************************************************)
MaxHandles == 3          \* ids the browser issues for watches, and for timers
MaxPosition == 2         \* the device is at 0..MaxPosition metres along a line
MaxPath == 2             \* points of the tracking polyline
GeoPositions == 0..MaxPosition

\* the existing timer left running
main_startAutoRefresh_noClear(handle, intervals, issued) ==
    [handle |-> issued + 1, intervals |-> intervals \cup {issued + 1}]

\* startAutoRefresh, main.js:1292-1303
main_startAutoRefresh(handle, intervals, issued) ==
    LET cleared == IF handle # NoHandle THEN intervals \ {handle} ELSE intervals
    IN  [handle |-> issued + 1, intervals |-> cleared \cup {issued + 1}]

\* stopAutoRefresh, main.js:1308-1313
main_stopAutoRefresh(handle, intervals) ==
    IF handle # NoHandle
       THEN [handle |-> NoHandle, intervals |-> intervals \ {handle}]
       ELSE [handle |-> handle, intervals |-> intervals]

\* startSensorAutoRefresh, mobile.js:2075-2082
mobile_startSensorAutoRefresh(handle, intervals, issued) ==
    LET cleared == IF handle # NoHandle THEN intervals \ {handle} ELSE intervals
    IN  [handle |-> issued + 1, intervals |-> cleared \cup {issued + 1}]

\* startLiveTracking, mobile.js:1812-1853: the call of watchPosition
mobile_startLiveTracking(watches, issued) ==
    [watchId |-> issued + 1, watches |-> watches \cup {issued + 1}]

\* stopLiveTracking, mobile.js:1858-1864
mobile_stopLiveTracking(watchId, watches) ==
    IF watchId # NoHandle
       THEN [watchId |-> NoHandle, watches |-> watches \ {watchId}]
       ELSE [watchId |-> watchId, watches |-> watches]

\* the success callback of watchPosition, mobile.js:1824-1848: the marker is made or
\* moved, and the position joins the path when the path is empty or its last point
\* is more than a metre away
mobile_positionCallback(marker, path, pos) ==
    LET last == path[Len(path)]
        far == IF pos > last THEN pos - last > 1 ELSE last - pos > 1
    IN  [probeMarker |-> IF marker = NoLayer THEN <<[at |-> pos, onMap |-> TRUE]>>
                         ELSE <<[marker[1] EXCEPT !.at = pos]>>,
         trackingPolyline |-> IF Len(path) = 0 \/ far THEN Append(path, pos) ELSE path]

BackgroundInit ==
    /\ MainInit
    /\ storedFieldId = NoField
    /\ page \in Pages
    /\ ring = BoxRing /\ grid = <<>> /\ applied = NoHook
    /\ MobileIdle
    /\ AuthIdle
    /\ CloseIdle
    /\ BackgroundIdle

\* main.js:36 and every later call of startAutoRefresh
StartAutoRefresh ==
    /\ page = "desktop"
    /\ timer_issued < MaxHandles
    /\ LET r == main_startAutoRefresh(autoRefreshInterval, timer_intervals, timer_issued)
       IN  /\ autoRefreshInterval' = r.handle
           /\ timer_intervals' = r.intervals
    /\ timer_issued' = timer_issued + 1
    /\ background_last' = "startAutoRefresh"
    /\ UNCHANGED <<geo_watches, geo_issued, mobile_watchId, mobile_probeMarker,
                   mobile_trackingPolyline, mobile_autoRefreshHandle>>
    /\ UNCHANGED <<mainVars, callVars, mobileVars, authVars, closeVars>>

StopAutoRefresh ==
    /\ page = "desktop"
    /\ LET r == main_stopAutoRefresh(autoRefreshInterval, timer_intervals)
       IN  /\ autoRefreshInterval' = r.handle
           /\ timer_intervals' = r.intervals
    /\ background_last' = "stopAutoRefresh"
    /\ UNCHANGED <<geo_watches, geo_issued, mobile_watchId, mobile_probeMarker,
                   mobile_trackingPolyline, timer_issued, mobile_autoRefreshHandle>>
    /\ UNCHANGED <<mainVars, callVars, mobileVars, authVars, closeVars>>

\* showScreen('field-analytics'), mobile.js:1746-1749
StartSensorAutoRefresh ==
    /\ page = "mobile"
    /\ timer_issued < MaxHandles
    /\ LET r == mobile_startSensorAutoRefresh(mobile_autoRefreshHandle, timer_intervals,
                                              timer_issued)
       IN  /\ mobile_autoRefreshHandle' = r.handle
           /\ timer_intervals' = r.intervals
    /\ timer_issued' = timer_issued + 1
    /\ background_last' = "startSensorAutoRefresh"
    /\ UNCHANGED <<geo_watches, geo_issued, mobile_watchId, mobile_probeMarker,
                   mobile_trackingPolyline, autoRefreshInterval>>
    /\ UNCHANGED <<mainVars, callVars, mobileVars, authVars, closeVars>>

\* the callback of an active interval timer, main.js:1299-1302 and mobile.js:2077-2081
Interval_Tick(id) ==
    /\ id \in timer_intervals
    /\ background_last' = "refresh"
    /\ UNCHANGED <<geo_watches, geo_issued, mobile_watchId, mobile_probeMarker,
                   mobile_trackingPolyline, timer_intervals, timer_issued,
                   autoRefreshInterval, mobile_autoRefreshHandle>>
    /\ UNCHANGED <<mainVars, callVars, mobileVars, authVars, closeVars>>

\* the click on start-deployment, mobile.js:1624-1627: initializeDeploymentMap,
\* mobile.js:1767-1806, which makes a new polyline, takes the marker off its map and
\* calls startLiveTracking
StartDeployment_Click ==
    /\ page = "mobile"
    /\ geo_issued < MaxHandles
    /\ mobile_trackingPolyline' = <<>>
    /\ mobile_probeMarker' = IF mobile_probeMarker = NoLayer THEN NoLayer
                             ELSE <<[mobile_probeMarker[1] EXCEPT !.onMap = FALSE]>>
    /\ LET r == mobile_startLiveTracking(geo_watches, geo_issued)
       IN  /\ mobile_watchId' = r.watchId
           /\ geo_watches' = r.watches
    /\ geo_issued' = geo_issued + 1
    /\ background_last' = "startLiveTracking"
    /\ UNCHANGED <<timer_intervals, timer_issued, autoRefreshInterval,
                   mobile_autoRefreshHandle>>
    /\ UNCHANGED <<mainVars, callVars, mobileVars, authVars, closeVars>>

\* the click on stop-tracking, mobile.js:1641
StopTracking_Click ==
    /\ page = "mobile"
    /\ LET r == mobile_stopLiveTracking(mobile_watchId, geo_watches)
       IN  /\ mobile_watchId' = r.watchId
           /\ geo_watches' = r.watches
    /\ background_last' = "stopLiveTracking"
    /\ UNCHANGED <<geo_issued, mobile_probeMarker, mobile_trackingPolyline,
                   timer_intervals, timer_issued, autoRefreshInterval,
                   mobile_autoRefreshHandle>>
    /\ UNCHANGED <<mainVars, callVars, mobileVars, authVars, closeVars>>

\* an active watch reports a position
Watch_Position(id, pos) ==
    /\ id \in geo_watches
    /\ Len(mobile_trackingPolyline) < MaxPath
    /\ LET r == mobile_positionCallback(mobile_probeMarker, mobile_trackingPolyline, pos)
       IN  /\ mobile_probeMarker' = r.probeMarker
           /\ mobile_trackingPolyline' = r.trackingPolyline
    /\ background_last' = "position"
    /\ UNCHANGED <<geo_watches, geo_issued, mobile_watchId, timer_intervals,
                   timer_issued, autoRefreshInterval, mobile_autoRefreshHandle>>
    /\ UNCHANGED <<mainVars, callVars, mobileVars, authVars, closeVars>>

BackgroundNext ==
    \/ StartAutoRefresh
    \/ StopAutoRefresh
    \/ StartSensorAutoRefresh
    \/ \E id \in timer_intervals : Interval_Tick(id)
    \/ StartDeployment_Click
    \/ StopTracking_Click
    \/ \E id \in geo_watches, pos \in GeoPositions : Watch_Position(id, pos)

SpecBackground == BackgroundInit /\ [][BackgroundNext]_vars

(***************************************************************************)
(* Properties of the watches and timers (specification SpecBackground)     *)
(***************************************************************************)
\* C34: at most one geolocation watch is active; right after stopLiveTracking none
\* is, and a position callback runs only while a watch obtained by the last start has
\* not been stopped.
C34_OneWatchNoneAfterStop ==
    /\ Cardinality(geo_watches) <= 1
    /\ background_last = "stopLiveTracking" => geo_watches = {}
    /\ background_last = "position" => mobile_watchId # NoHandle

\* the timer handle of the page in use
RefreshHandle == IF page = "desktop" THEN autoRefreshInterval ELSE mobile_autoRefreshHandle

\* C35: at most one auto-refresh interval timer is active; after startAutoRefresh or
\* startSensorAutoRefresh it is the one just created, the earlier one having been
\* cleared; after stopAutoRefresh none is active.
C35_OneRefreshTimer ==
    /\ Cardinality(timer_intervals) <= 1
    /\ background_last \in {"startAutoRefresh", "startSensorAutoRefresh"} =>
          RefreshHandle # NoHandle /\ timer_intervals = {RefreshHandle}
    /\ background_last = "stopAutoRefresh" =>
          autoRefreshInterval = NoHandle /\ timer_intervals = {}

\* auto-refresh was started twice and then stopped
C35_Witness ==
    /\ background_last = "stopAutoRefresh"
    /\ timer_issued >= 2
    /\ timer_intervals = {}

(***************************************************************************)
(* The boundary saveDrawnField builds from the drawn layer                 *)
(* (specification SpecClose): one call on chosen positions.                *)
(***************************************************************************)
MaxDrawnPoints == 4      \* positions of the drawn layer
DrawnPositions == {<<lat, lng>> : lat \in 0..1, lng \in 0..1}
DrawnLatLngs == UNION {[1..n -> DrawnPositions] : n \in 0..MaxDrawnPoints}

\* latlngs.map(ll => [ll.lng, ll.lat]), mobile.js:2007
mobile_coordinatesOf(latlngs) ==
    [k \in DOMAIN latlngs |-> <<latlngs[k][2], latlngs[k][1]>>]

\* the first point appended whatever the last point is
mobile_closeRing_always(coordinates) ==
    IF Len(coordinates) # 0 THEN Append(coordinates, coordinates[1]) ELSE coordinates

\* mobile.js:2008-2010: the first point is pushed when the array is not empty and its
\* first and last points differ in longitude or in latitude
mobile_closeRing(coordinates) ==
    IF Len(coordinates) # 0
       /\ (coordinates[1][1] # coordinates[Len(coordinates)][1]
           \/ coordinates[1][2] # coordinates[Len(coordinates)][2])
       THEN Append(coordinates, coordinates[1])
       ELSE coordinates

CloseInit ==
    /\ PagesIdle
    /\ AuthIdle
    /\ BackgroundIdle
    /\ mobile_latlngs \in DrawnLatLngs
    /\ mobile_boundary = <<>>

\* saveDrawnField, mobile.js:2006-2011: geojson.coordinates[0]
SaveDrawnField_Boundary ==
    /\ mobile_boundary = <<>>
    /\ mobile_boundary' = <<mobile_closeRing(mobile_coordinatesOf(mobile_latlngs))>>
    /\ UNCHANGED <<mainVars, callVars, mobileVars, authVars, backgroundVars, mobile_latlngs>>

CloseNext == SaveDrawnField_Boundary

SpecClose == CloseInit /\ [][CloseNext]_vars

IsClosed(c) == c[1] = c[Len(c)]

\* C36: the boundary saveDrawnField sends has equal first and last points; it is the
\* drawn points, with the first point appended exactly when the drawn points are not
\* already closed; and closing it again changes nothing.
C36_BoundaryClosedOnce ==
    mobile_boundary # <<>> =>
        LET drawn == mobile_coordinatesOf(mobile_latlngs)
            sent == mobile_boundary[1]
        IN  /\ Len(drawn) # 0 => IsClosed(sent)
            /\ IF Len(drawn) # 0 /\ ~IsClosed(drawn)
                  THEN sent = Append(drawn, drawn[1])
                  ELSE sent = drawn
            /\ mobile_closeRing(sent) = sent

\* a drawn triangle of three distinct points was sent with its first point appended
C36_Witness ==
    /\ mobile_boundary # <<>>
    /\ Len(mobile_latlngs) = 3
    /\ Cardinality({mobile_latlngs[k] : k \in 1..3}) = 3
    /\ Len(mobile_boundary[1]) = 4
    /\ mobile_boundary[1][4] = <<mobile_latlngs[1][2], mobile_latlngs[1][1]>>

====
